---- MODULE Spec2Model ----
(***************************************************************************)
(* Audio session and playback coordinator of the Spanish tutor client      *)
(* (src/unnamed/part_004: TTSCache, TTSManager and the App component).     *)
(*                                                                         *)
(* The browser runs one handler at a time.  Every action below is one      *)
(* handler, or the part of an async handler between two await points,      *)
(* followed by the microtasks it leaves behind.  Handlers are written as   *)
(* operators from a record of the whole state to the next one.             *)
(***************************************************************************)
EXTENDS Integers, Sequences, FiniteSets, TLC

\* Capacity handed to the TTSCache constructor (maxSize).  The deployed
\* instance is new TTSCache(20); the class is checked for small capacities.
maxSize == 2
\* Message ids that bubbles and auto-play segments refer to.
MaxMsg == 3

\* _process loops that may be alive at once.
MaxLoops == 2
\* Items waiting in the playback queue.
MaxQueue == 1

\* getUserMedia calls (acquisition tokens) in one run.
MaxToken == 3
\* Operation ids in one run.
MaxOp == 2

\* The same two limits for the runs that follow the capture mode over
\* several recordings.
MaxModeToken == 5
MaxModeOp == 5

\* And for the runs in which the page is hidden, shown and resumed while
\* the record button and a bubble are used.
MaxGateToken == 1
MaxGateOp == 2
MaxGateMsg == 1

\* Bubble taps during a capture session: getUserMedia calls, operation
\* ids and bubbles
MaxTapToken == 1
MaxTapOp == 1
MaxTapMsg == 1

\* Processing attempts that are cancelled, reset or superseded:
\* getUserMedia calls and operation ids
MaxAbortToken == 2
MaxAbortOp == 2

\* Transcriptions put through the filter: pieces in a text, getUserMedia
\* calls and operation ids
MaxPieces == 3
MaxHeardToken == 1
MaxHeardOp == 1

\* PCM buffers put through createWAVBlob: samples in a buffer
MaxSamples == 3

\* The record button pressed over playback: getUserMedia calls and
\* operation ids
MaxPressToken == 2
MaxPressOp == 2

\* TTSManager on its own: bubbles (its one recorder is never used)
MaxQueueMsg == 1

\* The rotation of the audio element: plays counted, bubbles
MaxPlays == 21
MaxRotateMsg == 1

\* Playback with any caller of stopIfPlaying: bubbles
MaxManagerMsg == 2

\* The conversation cleared between recordings: getUserMedia calls,
\* operation ids and bubbles
MaxClearToken == 2
MaxClearOp == 2
MaxClearMsg == 1

\* The encoder chosen, on any device: getUserMedia calls and operation ids
MaxEncoderToken == 3
MaxEncoderOp == 3

LoopIds == 1..MaxLoops
NoId == 0

VARIABLES
  \* TTSCache
  cache,            \* Map in insertion order, entries [id,url,lastUsed,isPlaying]
  evicted,          \* entries removed and released by the latest step
  lastRet,          \* what TTSCache returned in the latest step
  revoked,          \* urls released with URL.revokeObjectURL and still referred to
  \* TTSManager
  audio,            \* this.audio is an element (TRUE) or null
  audOwner,         \* loop whose url is the src of this.audio, 0 if none
  audPlaying,       \* this.audio is neither paused nor ended
  playingId,
  queue,            \* items [id,url,fromCache]
  processing,
  isResetting,
  onQueueComplete,  \* the callback is set
  playAbort,        \* loop that created this.playAbort, 0 if null
  playAborted,      \* this.playAbort.signal.aborted
  loops,            \* the _process invocations: where each one is suspended
  released,         \* urls the item.revoke() calls of the latest step released
  plays,            \* this.playCount: plays[k] says the k-th play was counted
  rotated,          \* the rotation of the latest step, and what it found
  \* App: refs
  busyRef,
  isButtonPressedRef,
  recorderRef,            \* token of the recorder, 0 if null
  currentStreamRef,       \* token of the stream, 0 if null
  abortControllerRef,     \* operation that created the controller, 0 if null
  audioChunksRef,         \* the array holds data
  currentOpIdRef,
  acquireTokenRef,
  isAcquiringStreamRef,
  consecutiveFailuresRef,
  wavSuccessCountRef,
  needsAudioPrimeRef,     \* .pending
  isResettingRef,
  \* App: React state
  isRecording,
  isProcessing,
  isCleaningUp,
  error,
  captureMode,
  micPermissionGranted,
  isRequestingPermission,
  appLifecycle,
  messages,               \* messages.length
  \* the browser and the requests in flight
  docHidden,              \* document.hidden
  recs,                   \* per acquisition token: its stream and recorder
  procs,                  \* per operation id: where processAudio is suspended
  cooldown,               \* 200 ms cool-down timers pending
  speakFetch,             \* per bubble: the /tts request of speak() is in flight
  speakWait,              \* per bubble: a speak() suspended at translateText
  heard,                  \* sttData.text of the latest /stt response read
  sttLog,                 \* history: how each transcription that was not stale ended
  isiOS,                  \* navigator.userAgent names an iPhone, iPad or iPod
  isTypeSupported,        \* the types MediaRecorder.isTypeSupported accepts
  \* createWAVBlob
  pcm16Data,              \* the Int16Array it is given
  wavBlob                 \* the bytes of the Blob it returned, <<>> before the call

\* The acquisition tokens and operation ids a run may hand out, and the
\* bubbles it shows
Tokens == DOMAIN recs
Ops == DOMAIN procs
MsgIds == DOMAIN speakFetch

cacheVars == <<cache, evicted, lastRet, revoked>>
ttsVars == <<audio, audOwner, audPlaying, playingId, queue, processing,
             isResetting, onQueueComplete, playAbort, playAborted, loops,
             released, plays, rotated>>
refVars == <<busyRef, isButtonPressedRef, recorderRef, currentStreamRef,
             abortControllerRef, audioChunksRef, currentOpIdRef, acquireTokenRef,
             isAcquiringStreamRef, consecutiveFailuresRef, wavSuccessCountRef,
             needsAudioPrimeRef, isResettingRef>>
stateVars == <<isRecording, isProcessing, isCleaningUp, error, captureMode,
               micPermissionGranted, isRequestingPermission, appLifecycle, messages>>
envVars == <<docHidden, recs, procs, cooldown, speakFetch, speakWait, heard,
            sttLog>>
wavVars == <<pcm16Data, wavBlob>>
browserVars == <<isiOS, isTypeSupported>>
vars == <<cacheVars, ttsVars, refVars, stateVars, envVars, wavVars, browserVars>>

--------------------------------------------------------------------------
\* TTSCache

Has(c, id) == \E i \in 1..Len(c) : c[i].id = id
IndexOf(c, id) == CHOOSE i \in 1..Len(c) : c[i].id = id
RemoveAt(c, i) == SubSeq(c, 1, i - 1) \o SubSeq(c, i + 1, Len(c))
Urls(c) == {c[i].url : i \in 1..Len(c)}

\* Date.now(): only the order of the stamps matters to the cache.  A call
\* happens in the same millisecond as the latest stamp or later.
Latest(c) == IF Len(c) = 0 THEN 0
             ELSE CHOOSE s \in {c[i].lastUsed : i \in 1..Len(c)} :
                    \A j \in 1..Len(c) : c[j].lastUsed <= s
DateNow(c) == {Latest(c), Latest(c) + 1}
\* Stamps are kept as ranks (same order, same ties).
Stamps(c) == {c[i].lastUsed : i \in 1..Len(c)}
Ranked(c) == [i \in 1..Len(c) |->
               [c[i] EXCEPT !.lastUsed =
                  Cardinality({s \in Stamps(c) : s < c[i].lastUsed}) + 1]]

\* URL.createObjectURL: a handle no live object refers to.
CreateObjectURL(used) ==
  CHOOSE u \in 1..(Cardinality(used) + 1) :
    u \notin used /\ \A v \in 1..(u - 1) : v \in used

\* get(messageId), were it to read the url and leave the entry as it is
CacheGetPeek(c, id, t) ==
  IF Has(c, id)
  THEN [cache |-> c, url |-> c[IndexOf(c, id)].url]
  ELSE [cache |-> c, url |-> 0]

\* get(messageId): the url, moved to the end of the Map; null (0) on a miss.
CacheGet(c, id, t) ==
  IF Has(c, id)
  THEN LET i == IndexOf(c, id)
           e == [c[i] EXCEPT !.lastUsed = t]
       IN [cache |-> Append(RemoveAt(c, i), e), url |-> e.url]
  ELSE [cache |-> c, url |-> 0]

\* _findLRUVictim() without its test of isPlaying
FindLRUVictimAny(c) ==
  IF Len(c) = 0 THEN 0
  ELSE CHOOSE i \in 1..Len(c) :
         \A j \in 1..Len(c) : \/ c[i].lastUsed < c[j].lastUsed
                               \/ (c[i].lastUsed = c[j].lastUsed /\ i <= j)

\* _findLRUVictim(): first entry in Map order with the smallest lastUsed
\* among those not playing; 0 when every entry is playing.
FindLRUVictim(c) ==
  LET cand == {i \in 1..Len(c) : ~c[i].isPlaying}
  IN IF cand = {} THEN 0
     ELSE CHOOSE i \in cand :
            \A j \in cand : \/ c[i].lastUsed < c[j].lastUsed
                            \/ (c[i].lastUsed = c[j].lastUsed /\ i <= j)

\* Map.set: an existing key keeps its place, a new key goes last.
MapSet(c, e) ==
  IF Has(c, e.id) THEN [c EXCEPT ![IndexOf(c, e.id)] = e] ELSE Append(c, e)

\* The capacity test of set, were it written with > instead of >=
AtCapacityStrict(c) == Len(c) > maxSize

\* this.cache.size >= this.maxSize
AtCapacity(c) == Len(c) >= maxSize

\* set(messageId, blob) with the url it created.
CacheSet(c, id, url, t) ==
  LET entry == [id |-> id, url |-> url, lastUsed |-> t, isPlaying |-> FALSE]
      v == FindLRUVictim(c)
  IN IF AtCapacity(c)
     THEN IF v # 0
          THEN [cache |-> MapSet(RemoveAt(c, v), entry), url |-> url,
                isTemp |-> FALSE, evicted |-> {c[v]}]
          ELSE [cache |-> c, url |-> url, isTemp |-> TRUE, evicted |-> {}]
     ELSE [cache |-> MapSet(c, entry), url |-> url,
           isTemp |-> FALSE, evicted |-> {}]

\* markPlaying(messageId, playing)
MarkPlaying(c, id, playing, t) ==
  IF Has(c, id)
  THEN [c EXCEPT ![IndexOf(c, id)] =
          [@ EXCEPT !.isPlaying = playing, !.lastUsed = t]]
  ELSE c

\* markStopped(messageId)
MarkStopped(c, id, t) == MarkPlaying(c, id, FALSE, t)

\* clear(): every url is revoked and the Map emptied; the statement after
\* that reads this.playingIds, which no constructor defines, and throws.
CacheClear(c) ==
  [cache |-> <<>>, evicted |-> {c[i] : i \in 1..Len(c)}, threw |-> TRUE]

NoRet == [op |-> "none", id |-> NoId, url |-> 0, isTemp |-> FALSE]

--------------------------------------------------------------------------
\* TTSManager.  w is the record of the whole state; w.now is Date.now()
\* for the handler that runs, w.restart the microtask stopIfPlaying
\* queued, w.over says that a bound of the model was passed.

NoLoop == [pc |-> "off", id |-> NoId, url |-> 0, fromCache |-> FALSE, sig |-> 0]

QueueUrls(w) == {w.queue[i].url : i \in 1..Len(w.queue)}
LoopUrls(w) == {w.loops[l].url : l \in {k \in LoopIds : w.loops[k].pc # "off"}}
UsedUrls(w) == Urls(w.cache) \cup QueueUrls(w) \cup LoopUrls(w)

\* isPlaying()
IsPlaying(w) == w.audio /\ w.audPlaying

\* _createAudioElement(): the old element leaves the document and goes
\* silent, whoever waits on it hears nothing more.
CreateAudioElement(w) ==
  [w EXCEPT !.audio = TRUE, !.audOwner = 0, !.audPlaying = FALSE]

\* this.playCount, counted as far as the run counts plays
PlayCount(w) == Cardinality({k \in DOMAIN w.plays : w.plays[k]})

\* this.playCount++
CountPlay(w) ==
  LET k == PlayCount(w) + 1
  IN IF k \in DOMAIN w.plays THEN [w EXCEPT !.plays[k] = TRUE] ELSE w

rotateEvery == 20

\* on: the step rotated the element; playing, processing: what
\* isPlaying() and this.processing were then; at: the playCount of the
\* latest rotation
NoRotation == [on |-> FALSE, playing |-> FALSE, processing |-> FALSE, at |-> 0]

\* _maybeRotateAudioElement(), were the element replaced whenever the
\* count is a multiple of rotateEvery
MaybeRotateAnyTime(w) ==
  IF PlayCount(w) > 0 /\ PlayCount(w) % rotateEvery = 0
  THEN [CreateAudioElement(w) EXCEPT
          !.rotated = [on |-> TRUE, playing |-> IsPlaying(w),
                       processing |-> w.processing, at |-> PlayCount(w)]]
  ELSE w

\* _maybeRotateAudioElement().  this.primed is no part of the state: the
\* fresh element is one that was never primed.
MaybeRotateAudioElement(w) ==
  IF PlayCount(w) > 0 /\ PlayCount(w) % rotateEvery = 0
  THEN IF ~IsPlaying(w) /\ ~w.processing
       THEN [CreateAudioElement(w) EXCEPT
               !.rotated = [on |-> TRUE, playing |-> IsPlaying(w),
                            processing |-> w.processing, at |-> PlayCount(w)]]
       ELSE w
  ELSE w

\* ensureAudioEl()
EnsureAudioEl(w) == IF w.audio THEN w ELSE CreateAudioElement(w)

\* this.playAbort?.abort(): every _waitForAudioEnd listening to this
\* signal rejects with AbortError.
Abort(w) ==
  IF w.playAbort = 0 \/ w.playAborted THEN w
  ELSE [w EXCEPT !.playAborted = TRUE,
                 !.loops = [l \in LoopIds |->
                    IF w.loops[l].pc = "wait" /\ w.loops[l].sig = w.playAbort
                    THEN [w.loops[l] EXCEPT !.pc = "aborted"]
                    ELSE w.loops[l]]]

\* audio.pause(); audio.removeAttribute('src'); audio.load()
UnloadAudio(w) == [w EXCEPT !.audOwner = 0, !.audPlaying = FALSE]

\* item.revoke(), were it to release whatever the item holds
RevokeAny(w, item) ==
  [w EXCEPT !.revoked = @ \cup {item.url}, !.released = Append(@, item.url)]

\* item.revoke()
Revoke(w, item) ==
  IF item.fromCache THEN w
  ELSE [w EXCEPT !.revoked = @ \cup {item.url}, !.released = Append(@, item.url)]

\* item.revoke() for each item of the queue, in order
RECURSIVE RevokeAll(_, _)
RevokeAll(w, items) ==
  IF items = <<>> THEN w ELSE RevokeAll(Revoke(w, Head(items)), Tail(items))

\* The while loop that empties the queue in pauseIfPlaying and clearQueue.
DropQueue(w) ==
  LET cached == {w.queue[i].id : i \in {j \in 1..Len(w.queue) : w.queue[j].fromCache}}
  IN [RevokeAll(w, w.queue) EXCEPT !.queue = <<>>,
               !.cache = [i \in 1..Len(w.cache) |->
                            IF w.cache[i].id \in cached
                            THEN [w.cache[i] EXCEPT !.isPlaying = FALSE,
                                                    !.lastUsed = w.now]
                            ELSE w.cache[i]]]

MarkStoppedIn(w, id) ==
  IF id = NoId THEN w ELSE [w EXCEPT !.cache = MarkStopped(@, id, w.now)]

\* pauseIfPlaying(options)
PauseIfPlaying(w) ==
  IF IsPlaying(w) \/ w.playingId # NoId
  THEN LET w1 == UnloadAudio(Abort(w))
           w2 == MarkStoppedIn(w1, w1.playingId)
           w3 == [w2 EXCEPT !.playingId = NoId, !.processing = FALSE,
                            !.onQueueComplete = FALSE]
       IN DropQueue(w3)
  ELSE w

\* clearQueue()
ClearQueue(w) ==
  LET w1 == Abort(w)
      w2 == MarkStoppedIn(w1, w1.playingId)
      w3 == [w2 EXCEPT !.playingId = NoId, !.onQueueComplete = FALSE]
  IN DropQueue(w3)

\* stopIfPlaying(id) without its three tests: it stops whatever it finds
StopIfPlayingAlways(w, id) ==
  LET w1 == UnloadAudio(Abort(w))
  IN [w1 EXCEPT !.playingId = NoId, !.processing = FALSE,
                !.restart = @ \/ ~w.isResetting, !.ret = TRUE]

\* stopIfPlaying(id): the state after it, with w.ret its result.
StopIfPlaying(w, id) ==
  IF ~w.audio THEN [w EXCEPT !.ret = FALSE]
  ELSE IF id # NoId /\ w.playingId # id THEN [w EXCEPT !.ret = FALSE]
  ELSE IF IsPlaying(w) \/ w.playingId # NoId
  THEN LET w1 == UnloadAudio(Abort(w))
       IN [w1 EXCEPT !.playingId = NoId, !.processing = FALSE,
                     !.restart = @ \/ ~w.isResetting, !.ret = TRUE]
  ELSE [w EXCEPT !.ret = FALSE]

\* The end of _process: processing off, the completion callback runs
\* (the one processAudio installs clears autoTTSPlaying and itself).
LoopExit(w, l) ==
  LET w1 == [w EXCEPT !.processing = FALSE, !.loops[l] = NoLoop]
  IN IF w1.onQueueComplete
     THEN [w1 EXCEPT !.busyRef.autoTTSPlaying = FALSE, !.onQueueComplete = FALSE]
     ELSE w1

\* The return inside the while loop when a reset is in progress.
LoopQuit(w, l) == [w EXCEPT !.processing = FALSE, !.loops[l] = NoLoop]

\* After an item ended, failed or was aborted: revoke, markStopped,
\* playingId = null, then the 200 ms pause or the end of the loop.
IterEnd(w, l) ==
  LET it == w.loops[l]
      w1 == Revoke(w, it)
      w2 == IF it.fromCache THEN MarkStoppedIn(w1, it.id) ELSE w1
      w3 == MaybeRotateAudioElement([w2 EXCEPT !.playingId = NoId])
  IN IF Len(w3.queue) > 0
     THEN IF ~w3.isResetting
          THEN [w3 EXCEPT !.loops[l] = [NoLoop EXCEPT !.pc = "gap"]]
          ELSE LoopQuit(w3, l)
     ELSE LoopExit(w3, l)

\* The head of the while loop: take the next item and start it.
LoopTop(w, l) ==
  IF Len(w.queue) = 0 THEN LoopExit(w, l)
  ELSE IF w.isResetting THEN LoopQuit(w, l)
  ELSE LET item == Head(w.queue)
           w1 == [w EXCEPT !.queue = Tail(@), !.playingId = item.id,
                           !.cache = IF item.fromCache
                                     THEN MarkPlaying(@, item.id, TRUE, w.now)
                                     ELSE @]
           w2 == Abort(w1)
           w3 == [w2 EXCEPT !.playAbort = l, !.playAborted = FALSE,
                            !.loops[l] = [pc |-> "play", id |-> item.id,
                                          url |-> item.url,
                                          fromCache |-> item.fromCache,
                                          sig |-> 0]]
       IN IF w3.audio
          THEN [w3 EXCEPT !.audOwner = l, !.audPlaying = FALSE]
          ELSE IterEnd(w3, l)   \* this.audio is null: TypeError, caught

FreeLoops(w) == {l \in LoopIds : w.loops[l].pc = "off"}

\* _process()
Process(w) ==
  IF w.isResetting THEN w
  ELSE IF w.processing \/ Len(w.queue) = 0 THEN w
  ELSE IF FreeLoops(w) = {} THEN [w EXCEPT !.over = TRUE]
  ELSE LoopTop([w EXCEPT !.processing = TRUE],
               CHOOSE l \in FreeLoops(w) : \A k \in FreeLoops(w) : l <= k)

\* enqueueBlob(id, blobOrUrl, fromCache).  Without fromCache the argument
\* goes to URL.createObjectURL, which throws for anything but a Blob.
EnqueueBlob(w, id, url, isBlob, fromCache) ==
  LET w1 == EnsureAudioEl(w)
  IN IF Len(w.queue) >= MaxQueue THEN [w EXCEPT !.over = TRUE]
     ELSE IF fromCache
     THEN Process([w1 EXCEPT !.queue =
                     Append(@, [id |-> id, url |-> url, fromCache |-> TRUE])])
     ELSE IF isBlob
     THEN Process([w1 EXCEPT !.queue =
                     Append(@, [id |-> id, url |-> CreateObjectURL(UsedUrls(w1)),
                                fromCache |-> FALSE])])
     ELSE [w1 EXCEPT !.threw = TRUE]

\* The microtasks a handler leaves: first the loops whose wait was
\* aborted, then the queue restart of stopIfPlaying.
RECURSIVE RunAborted(_)
RunAborted(w) ==
  LET ab == {l \in LoopIds : w.loops[l].pc = "aborted"}
  IN IF ab = {} THEN w
     ELSE RunAborted(IterEnd(w, CHOOSE l \in ab : \A k \in ab : l <= k))

RunMicrotasks(w) ==
  LET w1 == RunAborted(w)
      w2 == [w1 EXCEPT !.restart = FALSE]
  IN IF w1.restart /\ Len(w1.queue) > 0 /\ ~w1.processing /\ ~w1.isResetting
     THEN RunAborted(Process(w2))
     ELSE w2

--------------------------------------------------------------------------
\* App: streams, recorders and processAudio invocations

\* st: none, acquiring (getUserMedia pending), late, failed, recording,
\* stopping (stop called, its completion pending), done.  kind: the captureMode the
\* startRecording closure saw.  live: the stream has unstopped tracks.
\* wait: the callers awaiting the stop (short, release, reset).  mime: the
\* mimeType handed to the MediaRecorder constructor ("" for the browser's
\* default), none without a MediaRecorder.
NoRec == [st |-> "none", kind |-> "none", live |-> FALSE, wait |-> {},
          mime |-> "none"]

\* pc: stt, backoff, chat, tts (requests in flight), none.  sig: the
\* signal of its AbortController is aborted.  short: it was handed the
\* audio of a gesture under 800 ms.
NoProc == [pc |-> "none", attempt |-> 0, sig |-> FALSE, mode |-> "none",
           parts |-> <<>>, short |-> FALSE]

maxRetries == 3

\* `assistant-${index}-correction` and `assistant-${index}-reply`: every
\* reply has bubbles of its own.
PartId(op, part) == 2 * (op - 1) + (IF part = "correction" THEN 1 ELSE 2)

\* stream.getTracks().forEach(track => track.stop()) on currentStreamRef
StopCurrentStream(w) ==
  IF w.currentStreamRef = 0 THEN w
  ELSE [w EXCEPT !.recs[w.currentStreamRef].live = FALSE, !.currentStreamRef = 0]

\* abortControllerRef.current.abort()
AbortRequests(w) ==
  IF w.abortControllerRef = 0 THEN w
  ELSE [w EXCEPT !.procs[w.abortControllerRef].sig =
                    (w.procs[w.abortControllerRef].pc # "none")]

\* startRecording(e) up to its await of getUserMedia
StartRecording(w) ==
  IF w.appLifecycle # "ready" THEN w
  ELSE IF w.recorderRef # 0 THEN w
  ELSE IF w.isRecording \/ w.isProcessing \/ w.isRequestingPermission \/ w.isCleaningUp
  THEN w
  ELSE IF ~w.micPermissionGranted THEN w
  ELSE IF w.acquireTokenRef >= Len(w.recs) THEN [w EXCEPT !.over = TRUE]
  ELSE LET tok == w.acquireTokenRef + 1
       IN [w EXCEPT !.error = "", !.audioChunksRef = FALSE,
                    !.isAcquiringStreamRef = TRUE, !.acquireTokenRef = tok,
                    !.recs[tok] = [NoRec EXCEPT !.st = "acquiring",
                                                !.kind = w.captureMode]]

\* handleButtonPress from "Prime audio if needed" on: the recording lane
\* is claimed and playback paused whatever startRecording then decides.
ClaimRecording(w) ==
  PauseIfPlaying([w EXCEPT !.needsAudioPrimeRef = FALSE,
                           !.busyRef.isRecording = TRUE])

\* handleButtonPress(e)
HandleButtonPress(w) ==
  IF w.isButtonPressedRef THEN w
  ELSE LET w1 == [w EXCEPT !.isButtonPressedRef = TRUE]
       IN IF ~w1.micPermissionGranted
          THEN IF w1.isRequestingPermission
               THEN [w1 EXCEPT !.isButtonPressedRef = FALSE]
               ELSE [w1 EXCEPT !.isRequestingPermission = TRUE]
          ELSE StartRecording(ClaimRecording(w1))

\* requestMicPermissionOnce() after its getUserMedia, and the rest of
\* handleButtonPress: its startRecording is the closure of the render
\* without permission, which returns at "No permission" at the latest.
PermissionResult(w, granted) ==
  IF granted
  THEN ClaimRecording([w EXCEPT !.micPermissionGranted = TRUE,
                                !.isRequestingPermission = FALSE])
  ELSE [w EXCEPT !.error = "permission", !.isRequestingPermission = FALSE,
                 !.isButtonPressedRef = FALSE]

\* The types startRecording tries, in its order
types == <<"audio/mp4", "audio/webm;codecs=opus", "audio/webm", "audio/ogg">>

\* The first type of list the browser supports, '' when it supports none
FirstSupported(list, supported) ==
  LET ok == {i \in 1..Len(list) : list[i] \in supported}
  IN IF ok = {} THEN "" ELSE list[CHOOSE i \in ok : \A j \in ok : i <= j]

\* mimeType: the if chain for iOS stops after audio/webm
MimeType(ios, supported) ==
  IF ios THEN FirstSupported(SubSeq(types, 1, 3), supported)
  ELSE FirstSupported(types, supported)

\* The stream of token tok becomes the current one and gets its recorder:
\* the WAV graph when the closure holds captureMode wav, else a MediaRecorder
AdoptStream(w, tok) ==
  [w EXCEPT !.currentStreamRef = tok, !.isRecording = TRUE,
            !.recorderRef = tok, !.audioChunksRef = FALSE,
            !.recs[tok] = [@ EXCEPT !.st = "recording", !.live = TRUE,
                                    !.mime = IF w.recs[tok].kind = "wav" THEN "none"
                                             ELSE MimeType(w.isiOS, w.isTypeSupported)]]

\* startRecording after getUserMedia settled, were every stream adopted
GetUserMediaResultAnyToken(w, tok, ok) ==
  IF ok THEN AdoptStream([w EXCEPT !.isAcquiringStreamRef = FALSE], tok)
  ELSE [StopCurrentStream([w EXCEPT !.isAcquiringStreamRef = FALSE,
                                    !.error = "start", !.isRecording = FALSE])
          EXCEPT !.recs[tok] = [NoRec EXCEPT !.st = "failed"]]

\* startRecording after getUserMedia settled for token tok.  A stream
\* that arrives late has its tracks stopped (st late); a rejection runs
\* the catch block (st failed); the finally block runs in every case.
GetUserMediaResult(w, tok, ok) ==
  LET w0 == [w EXCEPT !.isAcquiringStreamRef = FALSE]
  IN IF ~ok
     THEN [StopCurrentStream([w0 EXCEPT !.error = "start", !.isRecording = FALSE])
             EXCEPT !.recs[tok] = [NoRec EXCEPT !.st = "failed"]]
     ELSE IF w.acquireTokenRef # tok
     THEN [w0 EXCEPT !.recs[tok] = [NoRec EXCEPT !.st = "late"]]
     ELSE AdoptStream(w0, tok)

\* recorder.stop() of a MediaRecorder, wavRecorder.stop(): both finish later
StopCall(w, tok, who) ==
  [w EXCEPT !.recs[tok] = [@ EXCEPT !.st = "stopping", !.wait = @ \cup who]]

Stoppable(w, tok) == tok # 0 /\ w.recs[tok].st \in {"recording", "stopping"}

IsWAV(w, tok) == tok # 0 /\ w.recs[tok].kind = "wav"
StateRecording(w, tok) ==
  tok # 0 /\ w.recs[tok].kind = "mp4" /\ w.recs[tok].st = "recording"

\* stopRecording(e) up to its await
StopRecording(w, short) ==
  LET w1 == [w EXCEPT !.isButtonPressedRef = FALSE]
      r == w.recorderRef
  IN IF w1.isRequestingPermission THEN w1
     ELSE IF ~w1.isRecording THEN w1
     ELSE IF short
     THEN LET w2 == [w1 EXCEPT !.isRecording = FALSE]
          IN IF IsWAV(w2, r)
             THEN IF Stoppable(w2, r) THEN StopCall(w2, r, {"short"}) ELSE w2
             ELSE IF StateRecording(w2, r) THEN StopCall(w2, r, {"short"})
             ELSE w2
     ELSE LET w2 == [w1 EXCEPT !.busyRef.isRecording = FALSE,
                               !.busyRef.isProcessing = TRUE,
                               !.isRecording = FALSE]
          IN IF IsWAV(w2, r)
             THEN IF Stoppable(w2, r)
                  THEN StopCall([w2 EXCEPT !.isCleaningUp = TRUE], r, {"release"})
                  ELSE [w2 EXCEPT !.isCleaningUp = TRUE]
             ELSE IF StateRecording(w2, r) THEN StopCall(w2, r, {"release"})
             ELSE w2

\* processAudio(audioBlob) up to its first fetch
ProcessAudioStart(w, mode, short) ==
  IF w.currentOpIdRef >= Len(w.procs) THEN [w EXCEPT !.over = TRUE]
  ELSE LET op == w.currentOpIdRef + 1
           w1 == StopCurrentStream([w EXCEPT !.currentOpIdRef = op,
                                             !.isProcessing = TRUE, !.error = ""])
       IN [w1 EXCEPT !.abortControllerRef = op,
                     !.procs[op] = [pc |-> "stt", attempt |-> 1, sig |-> FALSE,
                                    mode |-> mode, parts |-> <<>>,
                                    short |-> short]]

\* The finally block of processAudio, then the caller's cool-down timer.
ProcessAudioEnd(w, op) ==
  [w EXCEPT !.isProcessing = FALSE,
            !.busyRef.isRecording = FALSE, !.busyRef.isProcessing = FALSE,
            !.abortControllerRef = 0,
            !.procs[op] = NoProc,
            !.cooldown = @ + 1]

\* The switch to WAV, were one failure enough
SwitchToWavAtOnce(n, mode) == n >= 1 /\ mode = "mp4"

\* consecutiveFailuresRef.current >= 2 && captureMode === 'mp4'
SwitchToWav(n, mode) == n >= 2 /\ mode = "mp4"

\* currentOpIdRef.current !== myOpId
Superseded(w, op) == w.currentOpIdRef # op

\* The test for a cancelled request, were it to recognise none
AbortErrorNever(kind) == FALSE

\* err.name === 'AbortError'
AbortError(kind) == kind = "abort"

\* The catch block of processAudio; kind is abort, stt, network or other.
ProcessAudioCatch(w, op, kind) ==
  IF Superseded(w, op) THEN ProcessAudioEnd(w, op)
  ELSE LET mode == w.procs[op].mode
           w1 == [w EXCEPT !.busyRef.isProcessing = FALSE,
                           !.busyRef.autoTTSPlaying = FALSE,
                           !.sttLog = IF kind # "abort" /\ w.procs[op].pc = "stt"
                                      THEN Append(@, [res |-> kind, mode |-> mode])
                                      ELSE @]
           n == w.consecutiveFailuresRef + 1
           w2 == IF AbortError(kind) THEN w1
                 ELSE IF kind = "stt"
                 THEN [w1 EXCEPT !.consecutiveFailuresRef = n,
                                 !.wavSuccessCountRef = 0,
                                 !.captureMode = IF SwitchToWav(n, mode)
                                                 THEN "wav" ELSE @,
                                 !.error = IF SwitchToWav(n, mode) THEN "backup"
                                           ELSE IF mode = "wav" THEN "wavissue"
                                           ELSE "quality"]
                 ELSE IF kind = "network" THEN [w1 EXCEPT !.error = "network"]
                 ELSE [w1 EXCEPT !.error = "generic"]
       IN ProcessAudioEnd(w2, op)

\* A text is a sequence of pieces, each a run of characters; the texts
\* put through the filter are made of these.
Pieces == {" ", "x", "X", ".", "amara.org", "Amara.org", "thank you for watching"}

\* text.length of a one-piece text
PieceLength(p) ==
  IF p \in {" ", "x", "X", "."} THEN 1
  ELSE IF p \in {"amara.org", "Amara.org"} THEN 9
  ELSE 22

RECURSIVE Length(_)
Length(text) ==
  IF text = <<>> THEN 0 ELSE PieceLength(Head(text)) + Length(Tail(text))

\* text.toLowerCase()
ToLowerCase(text) ==
  [i \in DOMAIN text |-> IF text[i] = "X" THEN "x"
                         ELSE IF text[i] = "Amara.org" THEN "amara.org"
                         ELSE text[i]]

\* text.trim()
RECURSIVE Trim(_)
Trim(text) ==
  IF text = <<>> THEN text
  ELSE IF Head(text) = " " THEN Trim(Tail(text))
  ELSE IF text[Len(text)] = " " THEN Trim(SubSeq(text, 1, Len(text) - 1))
  ELSE text

\* text.includes(pattern)
Includes(text, pattern) ==
  \E i \in 1..(Len(text) - Len(pattern) + 1) :
    SubSeq(text, i, i + Len(pattern) - 1) = pattern

\* (i' stands for the accented i of the first pattern)
spuriousPatterns ==
  {<<"subti'tulos realizados por la comunidad de ", "amara.org">>,
   <<"subtitulos realizados por la comunidad de ", "amara.org">>,
   <<"subtitles made by the ", "amara.org", " community">>,
   <<"thank you for watching">>,
   <<"www.", "amara.org">>,
   <<"amara.org">>}

punctuationOnly == {<<".">>, <<",">>, <<"?">>, <<"!">>}

\* The filter with the length test of a one-character minimum
IsSpuriousResponseLax(text) ==
  LET lowerText == Trim(ToLowerCase(text))
  IN \/ \E pattern \in spuriousPatterns :
          IF pattern \in punctuationOnly THEN lowerText = pattern
          ELSE Includes(lowerText, pattern)
     \/ Length(lowerText) < 1

\* isSpuriousResponse(text)
IsSpuriousResponse(text) ==
  LET lowerText == Trim(ToLowerCase(text))
  IN \/ \E pattern \in spuriousPatterns :
          IF pattern \in punctuationOnly THEN lowerText = pattern
          ELSE Includes(lowerText, pattern)
     \/ Length(lowerText) < 2

\* !userText.trim() || isSpuriousResponse(userText), for the userText of
\* a response that came back ok
SttOutcome(userText) ==
  IF Trim(userText) = <<>> \/ IsSpuriousResponse(userText) THEN "spurious"
  ELSE "ok"

\* createWAVBlob: a 44-byte header and the samples, in a buffer of bytes
\* (buffer[i + 1] is the byte at offset i)
Int16 == {-32768, -1, 0, 1, 32767}

ArrayBuffer(byteLength) == [i \in 1..byteLength |-> 0]

\* 256^k, k < 4
Pow256(k) == CASE k = 0 -> 1 [] k = 1 -> 256 [] k = 2 -> 65536 [] OTHER -> 16777216

\* DataView.setUint8/16/32, little-endian: the low 1, 2, 4 bytes of value
SetUint(buffer, offset, value, width) ==
  [i \in 1..Len(buffer) |->
     IF i - 1 \in offset..(offset + width - 1)
     THEN (value \div Pow256(i - 1 - offset)) % 256
     ELSE buffer[i]]

SetUint16(buffer, offset, value) == SetUint(buffer, offset, value, 2)
SetUint32(buffer, offset, value) == SetUint(buffer, offset, value, 4)

\* writeString: one setUint8 per char code
WriteString(buffer, offset, codes) ==
  [i \in 1..Len(buffer) |->
     IF i - 1 \in offset..(offset + Len(codes) - 1)
     THEN codes[i - offset]
     ELSE buffer[i]]

\* new Int16Array(buffer, 44).set(pcm16Data): two bytes a sample, low byte
\* first, in two's complement
SetSamples(buffer, data) ==
  [i \in 1..Len(buffer) |->
     IF i - 1 \in 44..(44 + 2 * Len(data) - 1)
     THEN LET k == (i - 1 - 44) \div 2
              u == (data[k + 1] + 65536) % 65536
          IN (u \div Pow256((i - 1 - 44) % 2)) % 256
     ELSE buffer[i]]

DataSizeOfSamples(data, bytesPerSample) == Len(data)
DataSize(data, bytesPerSample) == Len(data) * bytesPerSample

CreateWAVBlob(data, sampleRate) ==
  LET numChannels == 1
      bitsPerSample == 16
      bytesPerSample == bitsPerSample \div 8
      blockAlign == numChannels * bytesPerSample
      dataSize == DataSize(data, bytesPerSample)
      b0 == ArrayBuffer(44 + dataSize)
      b1 == WriteString(b0, 0, <<82, 73, 70, 70>>)
      b2 == SetUint32(b1, 4, 36 + dataSize)
      b3 == WriteString(b2, 8, <<87, 65, 86, 69>>)
      b4 == WriteString(b3, 12, <<102, 109, 116, 32>>)
      b5 == SetUint32(b4, 16, 16)
      b6 == SetUint16(b5, 20, 1)
      b7 == SetUint16(b6, 22, numChannels)
      b8 == SetUint32(b7, 24, sampleRate)
      b9 == SetUint32(b8, 28, sampleRate * blockAlign)
      b10 == SetUint16(b9, 32, blockAlign)
      b11 == SetUint16(b10, 34, bitsPerSample)
      b12 == WriteString(b11, 36, <<100, 97, 116, 97>>)
      b13 == SetUint32(b12, 40, dataSize)
  IN SetSamples(b13, data)

\* The return to MP4, were two successes enough
SwitchToMp4Early(n) == n >= 2

\* wavSuccessCountRef.current >= 3
SwitchToMp4(n) == n >= 3

\* processAudio after the /stt fetch settled.  out: ok, spurious (a text
\* the filter rejects), http (not ok), network (fetch threw), abort.
SttResponse(w, op, out) ==
  LET p == w.procs[op]
  IN IF out = "abort" THEN ProcessAudioCatch(w, op, "abort")
     ELSE IF out \in {"http", "network"}
     THEN IF p.attempt < maxRetries
          THEN [w EXCEPT !.procs[op] = [p EXCEPT !.pc = "backoff",
                                                 !.attempt = @ + 1]]
          ELSE ProcessAudioCatch(w, op, IF out = "http" THEN "stt" ELSE "network")
     ELSE IF w.currentOpIdRef # op THEN ProcessAudioEnd(w, op)
     ELSE LET n == w.wavSuccessCountRef + 1
              w0 == [w EXCEPT !.sttLog = Append(@, [res |-> "ok", mode |-> p.mode])]
              w1 == IF p.mode = "wav"
                    THEN [w0 EXCEPT !.consecutiveFailuresRef = 0,
                                    !.wavSuccessCountRef = IF SwitchToMp4(n) THEN 0 ELSE n,
                                    !.captureMode = IF SwitchToMp4(n) THEN "mp4" ELSE @]
                    ELSE [w0 EXCEPT !.consecutiveFailuresRef = 0]
          IN IF out = "spurious"
             THEN ProcessAudioEnd([w1 EXCEPT !.error = "nospeech"], op)
             ELSE [w1 EXCEPT !.messages = @ + 1, !.procs[op].pc = "chat"]

\* processAudio after the retry delay
BackoffElapsed(w, op) ==
  IF w.procs[op].sig THEN ProcessAudioCatch(w, op, "abort")
  ELSE [w EXCEPT !.procs[op].pc = "stt"]

\* processAudio after the /chat fetch settled.  out: the segments of the
\* reply (none, reply, both), http, network, abort.
ChatResponse(w, op, out) ==
  IF out = "abort" THEN ProcessAudioCatch(w, op, "abort")
  ELSE IF out = "http" THEN ProcessAudioCatch(w, op, "other")
  ELSE IF out = "network" THEN ProcessAudioCatch(w, op, "network")
  ELSE IF w.currentOpIdRef # op THEN ProcessAudioEnd(w, op)
  ELSE LET w1 == [w EXCEPT !.messages = @ + 1, !.busyRef.isProcessing = FALSE]
       IN IF out = "none" THEN ProcessAudioEnd(w1, op)
          ELSE [w1 EXCEPT !.busyRef.autoTTSPlaying = TRUE,
                          !.onQueueComplete = TRUE,
                          !.procs[op] = [@ EXCEPT !.pc = "tts",
                             !.parts = IF out = "both"
                                       THEN <<"correction", "reply">>
                                       ELSE <<"reply">>]]

\* ttsCache.set(messageId, blob) and the enqueueBlob that follows it, as
\* processAudio and speak both write it; what enqueueBlob throws is caught.
CacheAndEnqueue(w, id) ==
  LET r == CacheSet(w.cache, id, CreateObjectURL(UsedUrls(w)), w.now)
      w1 == [w EXCEPT !.cache = r.cache,
                      !.evicted = @ \cup r.evicted,
                      !.revoked = @ \cup {e.url : e \in r.evicted},
                      !.lastRet = [op |-> "set", id |-> id, url |-> r.url,
                                   isTemp |-> r.isTemp]]
  IN [EnqueueBlob(w1, id, r.url, FALSE, ~r.isTemp) EXCEPT !.threw = FALSE]

\* processAudio after a /tts fetch of the auto-play loop settled
TtsResponse(w, op, ok) ==
  LET p == w.procs[op]
      w1 == IF ok THEN CacheAndEnqueue(w, PartId(op, Head(p.parts))) ELSE w
  IN IF Len(p.parts) > 1
     THEN [w1 EXCEPT !.procs[op].parts = Tail(@)]
     ELSE ProcessAudioEnd(w1, op)

\* cancelProcessing()
CancelProcessing(w) ==
  IF w.currentOpIdRef >= Len(w.procs) THEN [w EXCEPT !.over = TRUE]
  ELSE LET w1 == [w EXCEPT !.currentOpIdRef = @ + 1, !.isResetting = TRUE]
           w2 == ClearQueue(StopIfPlaying(w1, NoId))
           w3 == [w2 EXCEPT !.processing = FALSE, !.playingId = NoId]
           w4 == StopCurrentStream(AbortRequests(w3))
           r == w4.recorderRef
           w5 == IF r = 0 THEN w4
                 ELSE [(IF IsWAV(w4, r)
                        THEN IF Stoppable(w4, r) THEN StopCall(w4, r, {}) ELSE w4
                        ELSE IF StateRecording(w4, r) THEN StopCall(w4, r, {})
                        ELSE w4)
                       EXCEPT !.recorderRef = 0]
       IN [w5 EXCEPT !.isAcquiringStreamRef = FALSE,
                     !.busyRef = [isRecording |-> FALSE, isProcessing |-> FALSE,
                                  autoTTSPlaying |-> FALSE],
                     !.isProcessing = FALSE, !.isResetting = FALSE, !.error = ""]

\* resetAudioStack() from step 5 on, with its finally block
ResetFinish(w) ==
  IF w.currentOpIdRef >= Len(w.procs) THEN [w EXCEPT !.over = TRUE]
  ELSE [w EXCEPT !.audio = FALSE, !.audOwner = 0, !.audPlaying = FALSE,
                 !.consecutiveFailuresRef = 0, !.wavSuccessCountRef = 0,
                 !.currentOpIdRef = @ + 1,
                 !.appLifecycle = "ready", !.needsAudioPrimeRef = TRUE,
                 !.isResetting = FALSE, !.processing = FALSE,
                 !.playingId = NoId, !.onQueueComplete = FALSE,
                 !.busyRef = [isRecording |-> FALSE, isProcessing |-> FALSE,
                              autoTTSPlaying |-> FALSE],
                 !.isRecording = FALSE, !.isProcessing = FALSE,
                 !.isCleaningUp = FALSE, !.isResettingRef = FALSE]

\* resetAudioStack() up to the await of step 4, or to its end when no
\* recorder has to be stopped
ResetAudioStack(w) ==
  IF w.isResettingRef THEN w
  ELSE LET w1 == [w EXCEPT !.isResettingRef = TRUE, !.isResetting = TRUE]
           w2 == ClearQueue(StopIfPlaying(w1, NoId))
           w3 == [AbortRequests(w2) EXCEPT !.abortControllerRef = 0]
           w4 == [StopCurrentStream(w3) EXCEPT !.isAcquiringStreamRef = FALSE]
           r == w4.recorderRef
       IN IF r = 0 THEN ResetFinish(w4)
          ELSE IF (~IsWAV(w4, r) /\ StateRecording(w4, r))
                  \/ (IsWAV(w4, r) /\ Stoppable(w4, r))
          THEN StopCall(w4, r, {"reset"})
          ELSE ResetFinish([w4 EXCEPT !.recorderRef = 0])

\* The cool-down timer that follows a recording that produced no request
NoAudio(w, err) ==
  [w EXCEPT !.isProcessing = FALSE, !.error = err, !.cooldown = @ + 1]

\* A MediaRecorder stopped: those awaiting stopRecorder(recorder)
\* continue, resetAudioStack to its end.
MediaStopAwaited(w, tok, hasData) ==
  LET who == w.recs[tok].wait
      w0 == [w EXCEPT !.recs[tok] = [@ EXCEPT !.st = "done", !.wait = {}],
                      !.audioChunksRef = @ \/ hasData]
      w1 == IF "short" \in who THEN [w0 EXCEPT !.recorderRef = 0] ELSE w0
  IN IF "reset" \in who THEN ResetFinish([w1 EXCEPT !.recorderRef = 0]) ELSE w1

\* A MediaRecorder stopped: those awaiting stopRecorder continue, then
\* its onstop handler runs.
MediaRecorderStopped(w, tok, hasData) ==
  LET who == w.recs[tok].wait
      w2 == MediaStopAwaited(w, tok, hasData)
      w3 == [StopCurrentStream([w2 EXCEPT !.isCleaningUp = TRUE])
               EXCEPT !.recorderRef = 0]
  IN IF w3.audioChunksRef
     THEN ProcessAudioStart(w3, w3.captureMode, "short" \in who)
     ELSE NoAudio(w3, "noaudio")

\* wavRecorder.stop() settled: out is blob, empty (null) or throw; then
\* the callers awaiting it continue.
WavRecorderStopped(w, tok, out) ==
  LET who == w.recs[tok].wait
      ok == out # "throw"
      w0 == [w EXCEPT !.recs[tok] = [@ EXCEPT !.st = "done", !.wait = {},
                                              !.live = @ /\ ~ok]]
      w1 == IF "short" \in who /\ ok THEN [w0 EXCEPT !.recorderRef = 0] ELSE w0
      w2 == IF "release" \notin who THEN w1
            ELSE IF out = "blob"
            THEN ProcessAudioStart([w1 EXCEPT !.recorderRef = 0],
                                   w1.captureMode, FALSE)
            ELSE IF out = "empty"
            THEN NoAudio([w1 EXCEPT !.recorderRef = 0], "noaudio")
            ELSE NoAudio(w1, "wavstop")
  IN IF "reset" \in who
     THEN ResetFinish(IF ok THEN [w2 EXCEPT !.recorderRef = 0] ELSE w2)
     ELSE w2

\* The 200 ms cool-down after a recording was handled
CooldownElapsed(w) == [w EXCEPT !.cooldown = @ - 1, !.isCleaningUp = FALSE]

\* The bubbles whose /tts request is in flight
InFlight(w) == {m \in DOMAIN w.speakFetch : w.speakFetch[m]}

\* on: a speak() has marked the bubble clicked and awaits translateText.
\* life: the appLifecycle of the render whose closure runs.  busy
\* (history): a flag of busyRef was set when it was invoked.
NoWait == [on |-> FALSE, life |-> "ready", busy |-> FALSE]

\* b.isRecording || b.isProcessing || b.autoTTSPlaying
Busy(w) ==
  w.busyRef.isRecording \/ w.busyRef.isProcessing \/ w.busyRef.autoTTSPlaying

\* speak(text, messageId, event) for a bubble without a translation, up
\* to its await of translateText
SpeakInvoke(w, id) ==
  [w EXCEPT !.speakWait[id] = [on |-> TRUE, life |-> w.appLifecycle,
                               busy |-> Busy(w)]]

\* speak from the prime step on, up to its fetch; life is the
\* appLifecycle its closure holds
SpeakFrom(w, id, life) ==
  LET w0 == [w EXCEPT !.needsAudioPrimeRef = FALSE]
  IN IF life # "ready" THEN w0
     ELSE IF Busy(w0) THEN w0
     ELSE LET w1 == StopIfPlaying(w0, id)
          IN IF w1.ret THEN w1
             ELSE LET g == CacheGet(w1.cache, id, w1.now)
                      w2 == [w1 EXCEPT !.cache = g.cache,
                                       !.lastRet = [op |-> "get", id |-> id,
                                                    url |-> g.url, isTemp |-> FALSE]]
                  IN IF g.url # 0 THEN EnqueueBlob(w2, id, g.url, FALSE, TRUE)
                     ELSE IF InFlight(w2) # {}
                     THEN [w2 EXCEPT !.over = TRUE]
                     ELSE [w2 EXCEPT !.speakFetch[id] = TRUE]

\* speak(text, messageId, event) for a bubble whose translation is
\* loaded: it runs up to its fetch
Speak(w, id) == SpeakFrom(w, id, w.appLifecycle)

\* speak after translateText settled
SpeakTranslated(w, id) ==
  SpeakFrom([w EXCEPT !.speakWait[id] = NoWait], id, w.speakWait[id].life)

\* speak after its /tts fetch settled
SpeakTtsResponse(w, id, ok) ==
  LET w1 == [w EXCEPT !.speakFetch[id] = FALSE]
  IN IF ok THEN CacheAndEnqueue(w1, id) ELSE w1

\* _process after audio.play() resolved: playCount++, _waitForAudioEnd
\* with the signal this.playAbort holds now.
PlayResolved(w, l) ==
  [CountPlay(w) EXCEPT !.audPlaying = TRUE,
                       !.loops[l] = [@ EXCEPT !.pc = "wait", !.sig = w.playAbort]]

\* _process after audio.play() rejected with NotAllowedError, were the
\* loop to end there
PlayNotAllowedBreak(w, l) ==
  LET it == w.loops[l]
      w0 == [w EXCEPT !.needsAudioPrimeRef = TRUE]
      w1 == Revoke(w0, it)
      w2 == IF it.fromCache THEN MarkStoppedIn(w1, it.id) ELSE w1
      w3 == [w2 EXCEPT !.playingId = NoId, !.audOwner = 0]
  IN LoopQuit(w3, l)

\* _process after audio.play() rejected with NotAllowedError: the prime
\* flag (window.needsAudioPrimeRef is the ref of the mounted App), the
\* clean-up, and continue
PlayNotAllowed(w, l) ==
  LET it == w.loops[l]
      w0 == [w EXCEPT !.needsAudioPrimeRef = TRUE]
      w1 == Revoke(w0, it)
      w2 == IF it.fromCache THEN MarkStoppedIn(w1, it.id) ELSE w1
      w3 == [w2 EXCEPT !.playingId = NoId, !.audOwner = 0]
  IN LoopTop(w3, l)

\* _process after audio.play() rejected otherwise: one retry on a fresh
\* element; a rejection of the retry ends the item.
PlayFailed(w, l) ==
  IF w.loops[l].pc = "play"
  THEN [CreateAudioElement(w) EXCEPT !.audOwner = l,
                                     !.loops[l] = [@ EXCEPT !.pc = "retry"]]
  ELSE IterEnd([w EXCEPT !.audOwner = IF @ = l THEN 0 ELSE @], l)

\* The ended event of the element a loop waits on
AudioEnded(w, l) == IterEnd([w EXCEPT !.audPlaying = FALSE], l)

\* clearConversation(): what ttsCache.clear() throws leaves the handler,
\* the statements after the call do not run.
ClearConversation(w) ==
  LET r == CacheClear(w.cache)
      w1 == [w EXCEPT !.messages = 1, !.error = "",
                      !.cache = r.cache,
                      !.evicted = @ \cup r.evicted,
                      !.revoked = @ \cup {e.url : e \in r.evicted},
                      !.lastRet = [NoRet EXCEPT !.op = "clear"]]
  IN IF r.threw THEN [w1 EXCEPT !.threw = TRUE]
     ELSE [w1 EXCEPT !.needsAudioPrimeRef = FALSE,
                     !.consecutiveFailuresRef = 0,
                     !.wavSuccessCountRef = 0,
                     !.captureMode = "mp4"]

\* handleVisibilityChange()
HandleVisibilityChange(w, hidden) ==
  [w EXCEPT !.docHidden = hidden,
            !.appLifecycle = IF hidden THEN "backgrounded" ELSE "needs-resume"]

--------------------------------------------------------------------------
\* The state machine

\* The state a handler starts from, when Date.now() reads t.
WorldAt(t) ==
  [cache |-> cache, evicted |-> {}, lastRet |-> NoRet, revoked |-> revoked,
   audio |-> audio, audOwner |-> audOwner, audPlaying |-> audPlaying,
   playingId |-> playingId, queue |-> queue, processing |-> processing,
   isResetting |-> isResetting, onQueueComplete |-> onQueueComplete,
   playAbort |-> playAbort, playAborted |-> playAborted, loops |-> loops,
   released |-> <<>>, plays |-> plays, rotated |-> [NoRotation EXCEPT !.at = rotated.at],
   busyRef |-> busyRef, isButtonPressedRef |-> isButtonPressedRef,
   recorderRef |-> recorderRef, currentStreamRef |-> currentStreamRef,
   abortControllerRef |-> abortControllerRef, audioChunksRef |-> audioChunksRef,
   currentOpIdRef |-> currentOpIdRef, acquireTokenRef |-> acquireTokenRef,
   isAcquiringStreamRef |-> isAcquiringStreamRef,
   consecutiveFailuresRef |-> consecutiveFailuresRef,
   wavSuccessCountRef |-> wavSuccessCountRef,
   needsAudioPrimeRef |-> needsAudioPrimeRef, isResettingRef |-> isResettingRef,
   isRecording |-> isRecording, isProcessing |-> isProcessing,
   isCleaningUp |-> isCleaningUp, error |-> error, captureMode |-> captureMode,
   micPermissionGranted |-> micPermissionGranted,
   isRequestingPermission |-> isRequestingPermission,
   appLifecycle |-> appLifecycle, messages |-> messages,
   docHidden |-> docHidden, recs |-> recs, procs |-> procs,
   cooldown |-> cooldown, speakFetch |-> speakFetch, speakWait |-> speakWait,
   heard |-> heard,
   sttLog |-> sttLog,
   isiOS |-> isiOS, isTypeSupported |-> isTypeSupported,
   now |-> t, restart |-> FALSE, over |-> FALSE, threw |-> FALSE, ret |-> FALSE]

\* The state a handler leaves, after the microtasks it queued.
Commit(w0) ==
  \E w \in {RunMicrotasks(w0)} :
     /\ ~w.over
     /\ cache' = Ranked(w.cache)
     /\ evicted' = w.evicted
     /\ lastRet' = w.lastRet
     /\ revoked' = w.revoked \cap UsedUrls(w)
     /\ audio' = w.audio
     /\ audOwner' = w.audOwner
     /\ audPlaying' = w.audPlaying
     /\ playingId' = w.playingId
     /\ queue' = w.queue
     /\ processing' = w.processing
     /\ isResetting' = w.isResetting
     /\ onQueueComplete' = w.onQueueComplete
     /\ playAbort' = w.playAbort
     /\ playAborted' = w.playAborted
     /\ loops' = w.loops
     /\ released' = w.released
     /\ plays' = w.plays
     /\ rotated' = w.rotated
     /\ busyRef' = w.busyRef
     /\ isButtonPressedRef' = w.isButtonPressedRef
     /\ recorderRef' = w.recorderRef
     /\ currentStreamRef' = w.currentStreamRef
     /\ abortControllerRef' = w.abortControllerRef
     /\ audioChunksRef' = w.audioChunksRef
     /\ currentOpIdRef' = w.currentOpIdRef
     /\ acquireTokenRef' = w.acquireTokenRef
     /\ isAcquiringStreamRef' = w.isAcquiringStreamRef
     /\ consecutiveFailuresRef' = w.consecutiveFailuresRef
     /\ wavSuccessCountRef' = w.wavSuccessCountRef
     /\ needsAudioPrimeRef' = w.needsAudioPrimeRef
     /\ isResettingRef' = w.isResettingRef
     /\ isRecording' = w.isRecording
     /\ isProcessing' = w.isProcessing
     /\ isCleaningUp' = w.isCleaningUp
     /\ error' = w.error
     /\ captureMode' = w.captureMode
     /\ micPermissionGranted' = w.micPermissionGranted
     /\ isRequestingPermission' = w.isRequestingPermission
     /\ appLifecycle' = w.appLifecycle
     /\ messages' = w.messages
     /\ docHidden' = w.docHidden
     /\ recs' = w.recs
     /\ procs' = w.procs
     /\ cooldown' = w.cooldown
     /\ speakFetch' = w.speakFetch
     /\ speakWait' = w.speakWait
     /\ heard' = w.heard
     /\ sttLog' = w.sttLog
     /\ UNCHANGED <<wavVars, browserVars>>

\* The state after the component mounted, in a run of at most nTok
\* getUserMedia calls and nOp operation ids, with nMsg bubbles to tap
MountedApp(nTok, nOp, nMsg) ==
  /\ cache = <<>> /\ evicted = {} /\ lastRet = NoRet /\ revoked = {}
  /\ audio = FALSE /\ audOwner = 0 /\ audPlaying = FALSE
  /\ playingId = NoId /\ queue = <<>> /\ processing = FALSE
  /\ isResetting = FALSE /\ onQueueComplete = FALSE
  /\ playAbort = 0 /\ playAborted = FALSE
  /\ loops = [l \in LoopIds |-> NoLoop]
  /\ released = <<>>
  /\ rotated = NoRotation
  /\ busyRef = [isRecording |-> FALSE, isProcessing |-> FALSE,
                autoTTSPlaying |-> FALSE]
  /\ isButtonPressedRef = FALSE
  /\ recorderRef = 0 /\ currentStreamRef = 0 /\ abortControllerRef = 0
  /\ audioChunksRef = FALSE
  /\ currentOpIdRef = 0 /\ acquireTokenRef = 0
  /\ isAcquiringStreamRef = FALSE
  /\ consecutiveFailuresRef = 0 /\ wavSuccessCountRef = 0
  /\ needsAudioPrimeRef = FALSE /\ isResettingRef = FALSE
  /\ isRecording = FALSE /\ isProcessing = FALSE /\ isCleaningUp = FALSE
  /\ error = "" /\ captureMode = "mp4"
  /\ micPermissionGranted \in BOOLEAN
  /\ isRequestingPermission = FALSE
  /\ appLifecycle = "ready"
  /\ messages = 1
  /\ docHidden = FALSE
  /\ recs = [t \in 1..nTok |-> NoRec]
  /\ procs = [o \in 1..nOp |-> NoProc]
  /\ cooldown = 0
  /\ speakFetch = [m \in 1..nMsg |-> FALSE]
  /\ speakWait = [m \in 1..nMsg |-> NoWait]
  /\ heard = <<>>
  /\ sttLog = <<>>

\* A desktop browser whose MediaRecorder writes MP4 and WebM
DesktopBrowser ==
  /\ isiOS = FALSE
  /\ isTypeSupported = {"audio/mp4", "audio/webm;codecs=opus", "audio/webm"}

\* The runs that count no play leave the rotation of the audio element
\* out: playCount stays 0
Mounted(nTok, nOp, nMsg) ==
  /\ MountedApp(nTok, nOp, nMsg)
  /\ plays = <<>>
  /\ pcm16Data = <<>> /\ wavBlob = <<>>
  /\ DesktopBrowser

Init == Mounted(MaxToken, MaxOp, MaxMsg)

\* The permission was granted in an earlier visit (localStorage)
InitGranted == Init /\ micPermissionGranted = TRUE

World == WorldAt(Latest(cache) + 1)

\* The record button goes down
Press ==
  /\ ~docHidden
  /\ ~isButtonPressedRef
  /\ Commit(HandleButtonPress(World))

\* The permission prompt is answered
PermissionAnswered ==
  /\ isRequestingPermission
  /\ \E granted \in BOOLEAN : Commit(PermissionResult(World, granted))

\* getUserMedia settles
GetUserMediaSettled ==
  \E tok \in Tokens, ok \in BOOLEAN :
    /\ recs[tok].st = "acquiring"
    /\ Commit(GetUserMediaResult(World, tok, ok))

\* The record button goes up; short says the gesture lasted under 800 ms
Release ==
  /\ ~docHidden
  /\ isButtonPressedRef
  /\ \E short \in BOOLEAN : Commit(StopRecording(World, short))

\* A recorder that was told to stop has stopped
RecorderStopped ==
  \E tok \in Tokens :
    /\ recs[tok].st = "stopping"
    /\ \/ /\ recs[tok].kind = "mp4"
          /\ \E hasData \in BOOLEAN :
               Commit(MediaRecorderStopped(World, tok, hasData))
       \/ /\ recs[tok].kind = "wav"
          /\ \E out \in {"blob", "empty", "throw"} :
               Commit(WavRecorderStopped(World, tok, out))

CooldownTimer ==
  /\ cooldown > 0
  /\ Commit(CooldownElapsed(World))

\* The /stt request of an operation settles; an aborted one only rejects
SttSettled ==
  \E op \in Ops :
    /\ procs[op].pc = "stt"
    /\ \E out \in IF procs[op].sig THEN {"abort"}
                  ELSE {"ok", "spurious", "http", "network"} :
         Commit(SttResponse(World, op, out))

\* The /stt request of an operation comes back ok with a text
SttHeard ==
  \E op \in Ops :
    /\ procs[op].pc = "stt"
    /\ ~procs[op].sig
    /\ \E n \in 0..MaxPieces : \E userText \in [1..n -> Pieces] :
         Commit([SttResponse(World, op, SttOutcome(userText))
                   EXCEPT !.heard = userText])

BackoffTimer ==
  \E op \in Ops :
    /\ procs[op].pc = "backoff"
    /\ Commit(BackoffElapsed(World, op))

ChatSettled ==
  \E op \in Ops :
    /\ procs[op].pc = "chat"
    /\ \E out \in IF procs[op].sig THEN {"abort"}
                  ELSE {"none", "reply", "both", "http", "network"} :
         Commit(ChatResponse(World, op, out))

\* A /tts request of the auto-play loop settles; it carries no signal
TtsSettled ==
  \E op \in Ops :
    /\ procs[op].pc = "tts"
    /\ \E ok \in BOOLEAN : Commit(TtsResponse(World, op, ok))

\* The Cancel button, shown while isProcessing
Cancel ==
  /\ ~docHidden
  /\ isProcessing
  /\ Commit(CancelProcessing(World))

\* The Resume banner, shown while the app needs a resume
Resume ==
  /\ ~docHidden
  /\ appLifecycle = "needs-resume"
  /\ Commit(ResetAudioStack(World))

Hide ==
  /\ ~docHidden
  /\ Commit(HandleVisibilityChange(World, TRUE))

Show ==
  /\ docHidden
  /\ Commit(HandleVisibilityChange(World, FALSE))

\* A bubble is tapped
SpeakTap ==
  /\ ~docHidden
  /\ \E id \in MsgIds : Commit(Speak(World, id))

\* A bubble that has no translation yet is tapped
SpeakTapUntranslated ==
  /\ ~docHidden
  /\ \E id \in MsgIds :
       /\ ~speakWait[id].on
       /\ Commit(SpeakInvoke(World, id))

\* The /api/translate request of a speak() settles
TranslateSettled ==
  \E id \in MsgIds :
    /\ speakWait[id].on
    /\ Commit(SpeakTranslated(World, id))

SpeakTtsSettled ==
  \E id \in MsgIds :
    /\ speakFetch[id]
    /\ \E ok \in BOOLEAN : Commit(SpeakTtsResponse(World, id, ok))

\* audio.play() resolves: the url is still the source of the element
PlayStarted ==
  \E l \in LoopIds :
    /\ loops[l].pc \in {"play", "retry"}
    /\ audOwner = l
    /\ loops[l].url \notin revoked
    /\ Commit(PlayResolved(World, l))

\* audio.play() rejects: the autoplay policy, a source that was unloaded
\* or replaced, or a url that was revoked
PlayRejected ==
  \E l \in LoopIds :
    /\ loops[l].pc \in {"play", "retry"}
    /\ \/ /\ audOwner = l
          /\ loops[l].pc = "play"
          /\ Commit(PlayNotAllowed(World, l))
       \/ /\ audOwner # l \/ loops[l].url \in revoked \/ loops[l].pc = "retry"
          /\ Commit(PlayFailed(World, l))

\* The element a loop waits on fires ended
Ended ==
  \E l \in LoopIds :
    /\ loops[l].pc = "wait"
    /\ audOwner = l
    /\ audPlaying
    /\ Commit(AudioEnded(World, l))

\* The 200 ms pause between two items has passed
GapTimer ==
  \E l \in LoopIds :
    /\ loops[l].pc = "gap"
    /\ Commit(LoopTop(World, l))

Next ==
  \/ Press \/ PermissionAnswered \/ GetUserMediaSettled \/ Release
  \/ RecorderStopped \/ CooldownTimer
  \/ SttSettled \/ SttHeard \/ BackoffTimer \/ ChatSettled \/ TtsSettled
  \/ Cancel \/ Resume \/ Hide \/ Show
  \/ SpeakTap \/ SpeakTapUntranslated \/ TranslateSettled \/ SpeakTtsSettled
  \/ PlayStarted \/ PlayRejected \/ Ended \/ GapTimer

Spec == Init /\ [][Next]_vars

--------------------------------------------------------------------------
\* TTSCache on its own: any caller, any order of calls

restVars == <<revoked, ttsVars, refVars, stateVars, envVars, wavVars, browserVars>>

CallGet ==
  \E id \in MsgIds, t \in DateNow(cache) :
    LET r == CacheGet(cache, id, t)
    IN /\ cache' = Ranked(r.cache)
       /\ evicted' = {}
       /\ lastRet' = [op |-> "get", id |-> id, url |-> r.url, isTemp |-> FALSE]
       /\ UNCHANGED restVars

\* (got: the id the call before it found, when that was a get)
CallSet ==
  \E id \in MsgIds, t \in DateNow(cache) :
    LET r == CacheSet(cache, id, CreateObjectURL(Urls(cache)), t)
    IN /\ cache' = Ranked(r.cache)
       /\ evicted' = r.evicted
       /\ lastRet' = [op |-> "set", id |-> id, url |-> r.url, isTemp |-> r.isTemp,
                       got |-> IF lastRet.op = "get" /\ lastRet.url # 0
                               THEN lastRet.id ELSE NoId]
       /\ UNCHANGED restVars

CallMarkPlaying ==
  \E id \in MsgIds, playing \in BOOLEAN, t \in DateNow(cache) :
    /\ cache' = Ranked(MarkPlaying(cache, id, playing, t))
    /\ evicted' = {}
    /\ lastRet' = [NoRet EXCEPT !.op = "markPlaying", !.id = id]
    /\ UNCHANGED restVars

CallMarkStopped ==
  \E id \in MsgIds, t \in DateNow(cache) :
    /\ cache' = Ranked(MarkStopped(cache, id, t))
    /\ evicted' = {}
    /\ lastRet' = [NoRet EXCEPT !.op = "markStopped", !.id = id]
    /\ UNCHANGED restVars

CallClear ==
  LET r == CacheClear(cache)
  IN /\ cache' = r.cache
     /\ evicted' = r.evicted
     /\ lastRet' = [NoRet EXCEPT !.op = "clear"]
     /\ UNCHANGED restVars

NextCache == CallGet \/ CallSet \/ CallMarkPlaying \/ CallMarkStopped \/ CallClear

SpecCache == InitGranted /\ [][NextCache]_vars

\* Playback on its own: bubble taps and the queue driver
NextPlayback ==
  \/ SpeakTap \/ SpeakTtsSettled
  \/ PlayStarted \/ PlayRejected \/ Ended \/ GapTimer

SpecPlayback == InitGranted /\ [][NextPlayback]_vars

\* ttsManager.stopIfPlaying(id) called on its own, with an id or without
CallStopIfPlaying ==
  \E id \in MsgIds \cup {NoId} :
    LET w == StopIfPlaying(World, id)
    IN Commit([w EXCEPT !.lastRet = [op |-> "stopIfPlaying", id |-> id, url |-> 0,
                                     isTemp |-> FALSE, ret |-> w.ret]])

\* Playback with any caller of stopIfPlaying
NextManager == NextPlayback \/ CallStopIfPlaying

InitManager ==
  Mounted(MaxToken, MaxOp, MaxManagerMsg) /\ micPermissionGranted = TRUE

SpecManager == InitManager /\ [][NextManager]_vars

\* A capture session on its own: the record button, the requests of
\* processAudio, Cancel, and the queue driver that plays the reply
NextSession ==
  \/ Press \/ PermissionAnswered \/ GetUserMediaSettled \/ Release
  \/ RecorderStopped \/ CooldownTimer
  \/ SttSettled \/ BackoffTimer \/ ChatSettled \/ TtsSettled
  \/ Cancel
  \/ PlayStarted \/ PlayRejected \/ Ended \/ GapTimer

SpecSession == Init /\ [][NextSession]_vars

\* Recordings one after another, each transcribed and answered: the runs
\* in which the capture mode changes
NextMode ==
  \/ Press \/ GetUserMediaSettled \/ Release
  \/ RecorderStopped \/ CooldownTimer
  \/ SttSettled \/ BackoffTimer \/ ChatSettled

InitMode == Mounted(MaxModeToken, MaxModeOp, MaxMsg) /\ micPermissionGranted = TRUE

SpecMode == InitMode /\ [][NextMode]_vars

\* The record button and one bubble while the page is hidden, shown and
\* resumed, with the queue driver; one bubble never leaves a second item
\* in the queue, so no loop pauses between two items
NextGate ==
  \/ Hide \/ Show \/ Resume
  \/ Press \/ PermissionAnswered \/ GetUserMediaSettled \/ Release
  \/ RecorderStopped \/ CooldownTimer
  \/ SpeakTap \/ SpeakTtsSettled
  \/ PlayStarted \/ PlayRejected \/ Ended

InitGate == Mounted(MaxGateToken, MaxGateOp, MaxGateMsg)

SpecGate == InitGate /\ [][NextGate]_vars

\* Bubble taps, with and without a translation to fetch, during a capture
\* session and the playback of its reply
NextTap ==
  \/ SpeakTap \/ SpeakTapUntranslated \/ TranslateSettled \/ SpeakTtsSettled
  \/ Press \/ GetUserMediaSettled \/ Release
  \/ RecorderStopped \/ CooldownTimer
  \/ SttSettled \/ BackoffTimer \/ ChatSettled \/ TtsSettled
  \/ PlayStarted \/ PlayRejected \/ Ended \/ GapTimer

InitTap == Mounted(MaxTapToken, MaxTapOp, MaxTapMsg) /\ micPermissionGranted = TRUE

SpecTap == InitTap /\ [][NextTap]_vars

\* A recording whose transcription goes through the filter
NextHeard ==
  \/ Press \/ GetUserMediaSettled \/ Release
  \/ RecorderStopped \/ CooldownTimer
  \/ SttHeard \/ ChatSettled

InitHeard ==
  Mounted(MaxHeardToken, MaxHeardOp, MaxMsg) /\ micPermissionGranted = TRUE

SpecHeard == InitHeard /\ [][NextHeard]_vars

\* createWAVBlob on its own: any buffer of up to MaxSamples samples, at the
\* recorder's 16 kHz
CallCreateWAVBlob ==
  /\ wavBlob = <<>>
  /\ wavBlob' = CreateWAVBlob(pcm16Data, 16000)
  /\ UNCHANGED <<cacheVars, ttsVars, refVars, stateVars, envVars, pcm16Data,
                 browserVars>>

NextWav == CallCreateWAVBlob

InitWav ==
  /\ MountedApp(MaxToken, MaxOp, MaxMsg) /\ micPermissionGranted = TRUE
  /\ plays = <<>>
  /\ \E n \in 0..MaxSamples : pcm16Data \in [1..n -> Int16]
  /\ wavBlob = <<>>
  /\ DesktopBrowser

SpecWav == InitWav /\ [][NextWav]_vars

\* Capture sessions whose replies are played, the record button pressed
\* at any moment
NextPress ==
  \/ Press \/ GetUserMediaSettled \/ Release
  \/ RecorderStopped \/ CooldownTimer
  \/ SttSettled \/ ChatSettled \/ TtsSettled
  \/ PlayStarted \/ PlayRejected \/ Ended \/ GapTimer

InitPress ==
  Mounted(MaxPressToken, MaxPressOp, MaxMsg) /\ micPermissionGranted = TRUE

SpecPress == InitPress /\ [][NextPress]_vars

\* The same sessions when every request, timer and playback that is
\* pending completes; what the user does next is left free
Completes ==
  /\ WF_vars(GetUserMediaSettled) /\ WF_vars(RecorderStopped)
  /\ WF_vars(CooldownTimer)
  /\ WF_vars(SttSettled) /\ WF_vars(ChatSettled) /\ WF_vars(TtsSettled)
  /\ WF_vars(PlayStarted \/ PlayRejected)
  /\ WF_vars(Ended) /\ WF_vars(GapTimer)

SpecPressFair == SpecPress /\ Completes

\* TTSManager on its own: any caller enqueues a Blob of its own, pauses,
\* stops or clears
CallEnqueueBlob ==
  \E id \in MsgIds : Commit(EnqueueBlob(World, id, 0, TRUE, FALSE))

CallPauseIfPlaying == Commit(PauseIfPlaying(World))

CallClearQueue == Commit(ClearQueue(World))

NextQueue ==
  \/ CallEnqueueBlob \/ SpeakTap \/ SpeakTtsSettled
  \/ CallStopIfPlaying \/ CallPauseIfPlaying \/ CallClearQueue
  \/ PlayStarted \/ PlayRejected \/ Ended \/ GapTimer

InitQueue ==
  Mounted(MaxTapToken, MaxTapOp, MaxQueueMsg) /\ micPermissionGranted = TRUE

SpecQueue == InitQueue /\ [][NextQueue]_vars

\* One bubble tapped again and again, its plays counted
NextRotate ==
  \/ SpeakTap \/ SpeakTtsSettled
  \/ PlayStarted \/ PlayRejected \/ Ended

InitRotate ==
  /\ MountedApp(MaxTapToken, MaxTapOp, MaxRotateMsg) /\ micPermissionGranted = TRUE
  /\ plays = [k \in 1..MaxPlays |-> FALSE]
  /\ pcm16Data = <<>> /\ wavBlob = <<>>
  /\ DesktopBrowser

SpecRotate == InitRotate /\ [][NextRotate]_vars

\* The same when every request and playback that is pending completes
SpecRotateFair ==
  /\ SpecRotate
  /\ WF_vars(SpeakTtsSettled) /\ WF_vars(PlayStarted \/ PlayRejected)
  /\ WF_vars(Ended)

\* Replies played where the autoplay policy may refuse a play(): the
\* auto-play batch of a capture session, and Blobs of a caller's own
\* enqueued while the batch is under way
EnqueueBlobInBatch == onQueueComplete /\ CallEnqueueBlob

NextBlocked ==
  \/ Press \/ GetUserMediaSettled \/ Release
  \/ RecorderStopped \/ CooldownTimer
  \/ SttSettled \/ ChatSettled \/ TtsSettled
  \/ EnqueueBlobInBatch
  \/ PlayStarted \/ PlayRejected \/ Ended \/ GapTimer

InitBlocked ==
  Mounted(MaxTapToken, MaxTapOp, MaxQueueMsg) /\ micPermissionGranted = TRUE

SpecBlocked == InitBlocked /\ [][NextBlocked]_vars

\* The Clear button of the header
ClearTap ==
  /\ ~docHidden
  /\ Commit(ClearConversation(World))

\* Recordings whose transcription may fail and whose replies are played,
\* the conversation cleared at any moment
NextClear ==
  \/ Press \/ GetUserMediaSettled \/ Release
  \/ RecorderStopped \/ CooldownTimer
  \/ SttSettled \/ BackoffTimer \/ ChatSettled \/ TtsSettled
  \/ PlayStarted \/ PlayRejected \/ Ended \/ GapTimer
  \/ ClearTap

InitClear ==
  Mounted(MaxClearToken, MaxClearOp, MaxClearMsg) /\ micPermissionGranted = TRUE

SpecClear == InitClear /\ [][NextClear]_vars

\* Recordings one after another on any device, whatever its MediaRecorder
\* supports
InitEncoder ==
  /\ MountedApp(MaxEncoderToken, MaxEncoderOp, MaxMsg) /\ micPermissionGranted = TRUE
  /\ plays = <<>>
  /\ pcm16Data = <<>> /\ wavBlob = <<>>
  /\ isiOS \in BOOLEAN
  /\ isTypeSupported \in SUBSET {types[i] : i \in 1..Len(types)}

SpecEncoder == InitEncoder /\ [][NextMode]_vars

\* A capture session with everything that ends a processing attempt
\* early: Cancel, the resume after the page was hidden, a new attempt
NextAbort ==
  \/ Press \/ GetUserMediaSettled \/ Release
  \/ RecorderStopped \/ CooldownTimer
  \/ SttSettled \/ BackoffTimer \/ ChatSettled \/ TtsSettled
  \/ Cancel \/ Hide \/ Show \/ Resume
  \/ PlayStarted \/ PlayRejected \/ Ended \/ GapTimer

InitAbort ==
  Mounted(MaxAbortToken, MaxAbortOp, MaxMsg) /\ micPermissionGranted = TRUE

SpecAbort == InitAbort /\ [][NextAbort]_vars

--------------------------------------------------------------------------
\* Properties

Owned == {f \in {"isRecording", "isProcessing", "autoTTSPlaying"} : busyRef[f]}

\* C1: in every reachable state at most one of the ownership flags
\* isRecording, isProcessing and autoTTSPlaying of busyRef is true.
C1_SingleOwner == Cardinality(Owned) <= 1

\* A request of operation op is in flight
RequestInFlight(op) == procs[op].pc \in {"stt", "chat", "tts"}

\* The request operation op waited for has settled in this step
Settled(op) ==
  /\ RequestInFlight(op)
  /\ \/ procs'[op].pc # procs[op].pc
     \/ procs'[op].parts # procs[op].parts

\* C2: a transcription, reply or synthesis response that arrives after the
\* operation id moved past the stamp of its attempt is dropped: the step
\* appends no message, changes no mode-switch counter nor the capture mode,
\* sets no error text, raises no ownership flag and enqueues no audio.
C2_StaleDropped ==
  [][\A op \in Ops :
       (currentOpIdRef # op /\ Settled(op)) =>
         /\ messages' = messages
         /\ consecutiveFailuresRef' = consecutiveFailuresRef
         /\ wavSuccessCountRef' = wavSuccessCountRef
         /\ captureMode' = captureMode
         /\ error' = error
         /\ \A f \in DOMAIN busyRef : busyRef'[f] => busyRef[f]
         /\ isProcessing' => isProcessing
         /\ isRecording' => isRecording
         /\ queue' = queue
         /\ loops' = loops
         /\ cache' = cache]_vars

\* C3: when cancelProcessing returns, no request of processAudio is left
\* in flight unaborted, no microphone track is live, the queue is empty
\* with no current item, the operation id has grown, and the three
\* ownership flags are false.  (A /tts request of the auto-play loop is
\* sent without the signal, so abort() does not reach it.)
C3_CancelPost ==
  [][Cancel =>
       /\ \A op \in Ops :
            procs'[op].pc \in {"stt", "chat", "tts"} =>
              (procs'[op].sig /\ procs'[op].pc # "tts")
       /\ \A tok \in Tokens : ~recs'[tok].live
       /\ queue' = <<>>
       /\ playingId' = NoId
       /\ currentOpIdRef' > currentOpIdRef
       /\ ~busyRef'.isRecording /\ ~busyRef'.isProcessing
       /\ ~busyRef'.autoTTSPlaying]_vars

\* C4: the audio of a gesture shorter than 800 ms is never handed to
\* processAudio, whatever the capture mode.
C4_ShortDiscarded == \A op \in Ops : ~procs[op].short

\* C5: when the stream of token N arrives after token N+1 was issued,
\* its tracks are stopped, it does not become the current stream and gets
\* no recorder; a stream becomes current, or gets a recorder, only while
\* its token is the latest.
C5_LateStreamDropped ==
  [][\A tok \in Tokens :
       /\ (recs[tok].st = "acquiring" /\ acquireTokenRef > tok
           /\ recs'[tok].st # "acquiring")
          => (/\ ~recs'[tok].live
              /\ recs'[tok].st \in {"late", "failed"}
              /\ currentStreamRef' # tok
              /\ recorderRef' # tok)
       /\ (currentStreamRef' = tok /\ currentStreamRef # tok)
          => acquireTokenRef = tok
       /\ (recorderRef' = tok /\ recorderRef # tok)
          => acquireTokenRef = tok]_vars

\* A stream arrived late and was dropped while a newer token was out
C5_LateStreamSeen ==
  \E tok \in Tokens : recs[tok].st = "late" /\ acquireTokenRef > tok

\* A failure was handled in this step: getUserMedia rejected, a recorder
\* stopped with an error or without audio, or the catch block of the
\* current operation reported an error.
FailureHandled ==
  \/ \E tok \in Tokens : recs[tok].st = "acquiring" /\ recs'[tok].st = "failed"
  \/ \E tok \in Tokens :
       /\ recs[tok].st = "stopping" /\ recs'[tok].st = "done"
       /\ cooldown' = cooldown + 1
       /\ error' \in {"noaudio", "wavstop"}
  \/ \E op \in Ops :
       /\ currentOpIdRef = op
       /\ procs[op].pc \in {"stt", "chat"} /\ procs'[op].pc = "none"
       /\ error' \in {"backup", "wavissue", "quality", "network", "generic"}

\* No stream is awaited, no recorder exists or is stopping, and no
\* processAudio is running
Quiet ==
  /\ \A tok \in Tokens : recs[tok].st \notin {"acquiring", "recording", "stopping"}
  /\ \A op \in Ops : procs[op].pc = "none"

\* C6: a failure path that leaves nothing else in progress ends with
\* isRecording and isProcessing false, the React state and the ownership
\* flags of busyRef alike.
C6_FailureIdle ==
  [][(FailureHandled /\ Quiet') =>
       /\ ~isRecording' /\ ~isProcessing'
       /\ ~busyRef'.isRecording /\ ~busyRef'.isProcessing]_vars

ActiveLoops == {l \in LoopIds : loops[l].pc # "off"}
CurrentItems == {l \in LoopIds : loops[l].pc \in {"play", "retry", "wait"}}

\* C7: at most one _process loop is active and at most one queue item is
\* current at any time.
C7_SingleLoop == Cardinality(ActiveLoops) <= 1 /\ Cardinality(CurrentItems) <= 1

\* C8: the cache never holds more than maxSize entries.
C8_Bounded == Len(cache) <= maxSize

\* A set that had to evict has just filled the cache again
C8_FullAfterEviction ==
  lastRet.op = "set" /\ evicted # {} /\ Len(cache) = maxSize

\* C9: set never evicts an entry whose isPlaying flag is true.
C9_PlayingKept == lastRet.op = "set" => \A e \in evicted : ~e.isPlaying

\* A set evicted an entry while an older entry was playing
C9_EvictedAroundPlaying ==
  /\ lastRet.op = "set" /\ evicted # {}
  /\ \E i \in 1..Len(cache) :
       cache[i].isPlaying /\ \A e \in evicted : cache[i].lastUsed < e.lastUsed

AllPlaying(c) == \A i \in 1..Len(c) : c[i].isPlaying

\* The item of message id waits in the queue, or was taken from it by a
\* loop, as an item the cache does not own
TempItemEnqueued(id) ==
  \/ \E i \in 1..Len(queue') : queue'[i].id = id /\ ~queue'[i].fromCache
  \/ \E l \in LoopIds :
       /\ loops'[l] # loops[l]
       /\ loops'[l].pc = "play" /\ loops'[l].id = id /\ ~loops'[l].fromCache

\* C10: a set on a full cache whose entries are all playing leaves the
\* cache as it was and returns a temporary handle, which the caller
\* enqueues as an item the cache does not own.
C10_TempHandle ==
  [][(lastRet'.op = "set" /\ AtCapacity(cache) /\ AllPlaying(cache)) =>
       /\ cache' = cache
       /\ evicted' = {}
       /\ lastRet'.isTemp
       /\ TempItemEnqueued(lastRet'.id)]_vars

\* The state a handler leaves when it calls stopIfPlaying(id) n times
StoppedTimes(id, n) ==
  LET once == StopIfPlaying(World, id)
      w == IF n = 1 THEN once ELSE StopIfPlaying(once, id)
  IN [RunMicrotasks(w) EXCEPT !.ret = FALSE]

NothingCurrent == playingId = NoId /\ ~(audio /\ audPlaying)

\* C11: stopIfPlaying, with or without an id, called when no item is
\* current and the element is not playing returns false and changes
\* nothing; two calls in a row leave what one call leaves.
C11_StopNoOp ==
  \A id \in MsgIds \cup {NoId} :
    /\ NothingCurrent => StopIfPlaying(World, id) = World
    /\ StoppedTimes(id, 2) = StoppedTimes(id, 1)

\* stopIfPlaying found nothing to stop while a loop sat in its pause
C11_StopFoundNothing ==
  /\ lastRet.op = "stopIfPlaying" /\ ~lastRet.ret
  /\ processing /\ playingId = NoId /\ Len(queue) > 0

\* The latest entry of the history, when this step added one
Logged == Len(sttLog') > Len(sttLog)
LatestLogged == sttLog'[Len(sttLog')]

LastOk(log) ==
  IF \E i \in 1..Len(log) : log[i].res = "ok"
  THEN CHOOSE i \in 1..Len(log) :
         log[i].res = "ok" /\ \A j \in (i + 1)..Len(log) : log[j].res # "ok"
  ELSE 0

\* Transcription failures since the latest successful transcription
DecodeRun(log) ==
  Cardinality({i \in (LastOk(log) + 1)..Len(log) : log[i].res = "stt"})

\* C12: in MP4 mode the second transcription failure with no successful
\* transcription between the two switches the capture mode to WAV, nothing
\* else does, and a capture takes the path of the mode it starts in.
C12_SwitchToWav ==
  [][/\ (captureMode = "mp4" /\ Logged /\ LatestLogged.res = "stt"
          /\ DecodeRun(sttLog') >= 2) => captureMode' = "wav"
     /\ (captureMode = "mp4" /\ captureMode' = "wav") =>
          (Logged /\ LatestLogged.res = "stt" /\ DecodeRun(sttLog') >= 2)
     /\ \A tok \in Tokens :
          (recs[tok].st = "none" /\ recs'[tok].st = "acquiring") =>
             recs'[tok].kind = captureMode]_vars

\* After two failures in a row the next capture records on the WAV path
C12_WavCapture ==
  /\ DecodeRun(sttLog) >= 2 /\ captureMode = "wav"
  /\ \E tok \in Tokens : recs[tok].kind = "wav" /\ recs[tok].st = "recording"

\* The latest entry that ends a run of WAV successes: one recorded in MP4
\* mode, or a failure of one of the kinds in breaks
LastBreak(log, breaks) ==
  LET B == {i \in 1..Len(log) : log[i].mode # "wav" \/ log[i].res \in breaks}
  IN IF B = {} THEN 0 ELSE CHOOSE i \in B : \A j \in B : j <= i

\* Successful WAV transcriptions since then
WavOkRun(log, breaks) ==
  Cardinality({i \in (LastBreak(log, breaks) + 1)..Len(log) : log[i].res = "ok"})

\* In WAV mode: the third success of a run returns the capture mode to
\* MP4 with the success counter at 0, a failure of a kind in breaks
\* leaves the counter at 0, and nothing else returns to MP4.
WavRule(breaks) ==
  /\ (captureMode = "wav" /\ Logged /\ LatestLogged.res = "ok"
       /\ WavOkRun(sttLog', breaks) >= 3) =>
         (captureMode' = "mp4" /\ wavSuccessCountRef' = 0)
  /\ (captureMode = "wav" /\ Logged /\ LatestLogged.res \in breaks) =>
         (wavSuccessCountRef' = 0 /\ captureMode' = "wav")
  /\ (captureMode = "wav" /\ captureMode' = "mp4") =>
         (Logged /\ LatestLogged.res = "ok" /\ WavOkRun(sttLog', breaks) >= 3)

StreamRequested ==
  \/ isRequestingPermission' /\ ~isRequestingPermission
  \/ \E tok \in Tokens : recs[tok].st = "none" /\ recs'[tok].st = "acquiring"

\* resetAudioStack ran to its end in this step
ResetFinished ==
  /\ currentOpIdRef' > currentOpIdRef
  /\ isResettingRef \/ Resume

\* C14: a page that was hidden and is shown again needs a resume, and
\* while it stays visible it does so until resetAudioStack has run; in
\* that state a press of the record button asks for no microphone stream
\* and starts no recording, and a bubble tap requests and enqueues no audio.
C14_NeedsResumeGate ==
  [][/\ (docHidden /\ ~docHidden') => appLifecycle' = "needs-resume"
     /\ (appLifecycle = "needs-resume" /\ ~docHidden') =>
          (appLifecycle' = "needs-resume" \/ (ResetFinished /\ appLifecycle' = "ready"))
     /\ (appLifecycle = "needs-resume" /\ Press) =>
          (~StreamRequested /\ recs' = recs /\ isRecording' = isRecording)
     /\ (appLifecycle = "needs-resume" /\ SpeakTap) =>
          (queue' = queue /\ loops' = loops /\ speakFetch' = speakFetch)]_vars

\* This step put an item into the playback queue (_process may have taken
\* it at once)
ItemEnqueued ==
  \/ Len(queue') > Len(queue)
  \/ \E l \in LoopIds : loops[l].pc = "off" /\ loops'[l].pc # "off"

\* In this step audio.play() was called for an item, or it resolved
ItemStarted ==
  \E l \in LoopIds :
    \/ loops'[l].pc = "play" /\ loops[l].pc # "play"
    \/ loops'[l].pc = "wait" /\ loops[l].pc # "wait"

\* C15: in every state where the app needs a resume no capture session
\* is recording, and no step taken in that state enqueues a playback item
\* or starts one playing.
C15_NeedsResumeQuiet ==
  [][appLifecycle' = "needs-resume" =>
       /\ ~isRecording'
       /\ \A tok \in Tokens : recs'[tok].st # "recording"
       /\ appLifecycle = "needs-resume" => ~ItemEnqueued /\ ~ItemStarted]_vars

\* The states in which a resetAudioStack that runs or is suspended now
\* can finish: at once when it has no recorder to wait for, else when the
\* stop it awaits settles
ResetEnds ==
  LET now == IF appLifecycle = "needs-resume" /\ ~docHidden /\ ~isResettingRef
             THEN {ResetAudioStack(World)} ELSE {}
      awaited(kind) == {tok \in Tokens : /\ recs[tok].st = "stopping"
                                         /\ recs[tok].kind = kind
                                         /\ "reset" \in recs[tok].wait}
      mp4 == {MediaStopAwaited(World, tok, hasData) :
                tok \in awaited("mp4"), hasData \in BOOLEAN}
      wav == {WavRecorderStopped(World, tok, out) :
                tok \in awaited("wav"), out \in {"blob", "empty", "throw"}}
  IN {w \in now \cup mp4 \cup wav : ~w.over /\ ~w.isResettingRef}

\* C16: when resetAudioStack finishes nothing plays and the queue is
\* empty, no stream and no recorder is held, the audio element is gone,
\* the ownership flags and the processing/playingId state of the TTS
\* manager are clear, both mode-switch counters are 0, the operation id
\* has advanced, the app is ready and the audio prime is pending.
C16_ResetLeavesClean ==
  \A w \in ResetEnds :
    /\ ~IsPlaying(w) /\ w.queue = <<>>
    /\ w.currentStreamRef = 0 /\ w.recorderRef = 0
    /\ ~w.audio
    /\ ~w.busyRef.isRecording /\ ~w.busyRef.isProcessing /\ ~w.busyRef.autoTTSPlaying
    /\ ~w.processing /\ w.playingId = NoId
    /\ w.consecutiveFailuresRef = 0 /\ w.wavSuccessCountRef = 0
    /\ w.currentOpIdRef > currentOpIdRef
    /\ w.appLifecycle = "ready"
    /\ w.needsAudioPrimeRef

\* This step left the playback as it was: no /tts request, nothing
\* enqueued, nothing stopped
AudioUntouched ==
  /\ speakFetch' = speakFetch /\ queue' = queue /\ loops' = loops
  /\ playingId' = playingId /\ audPlaying' = audPlaying /\ audOwner' = audOwner

\* C17: a speak() invoked while isRecording, isProcessing or
\* autoTTSPlaying is set marks its bubble clicked (and fetches the
\* translation it lacks), but requests no synthesis, enqueues nothing and
\* stops nothing, neither at once nor when it continues after the
\* translation.
C17_BusyTapSilent ==
  [][/\ (Busy(World) /\ SpeakTap) => AudioUntouched
     /\ (Busy(World) /\ SpeakTapUntranslated) =>
          (AudioUntouched /\ \E id \in MsgIds : speakWait'[id].on /\ ~speakWait[id].on)
     /\ \A id \in MsgIds :
          (speakWait[id].on /\ speakWait[id].busy /\ ~speakWait'[id].on) =>
            AudioUntouched]_vars

\* The processAudio invocation of op returned in this step
AttemptEnds(op) == procs[op].pc # "none" /\ procs'[op].pc = "none"

\* C18: a processing attempt that ends after its requests were aborted
\* (Cancel, resetAudioStack) or after its operation id was superseded
\* leaves the error message as it is, at whichever await it ends; and
\* Cancel leaves the error message empty.
C18_AbortSilent ==
  [][/\ \A op \in Ops :
          (AttemptEnds(op) /\ (procs[op].sig \/ currentOpIdRef # op)) =>
            error' = error
     /\ Cancel => error' = ""]_vars

\* One recording was made and its attempt has ended (the cool-down is
\* pending) after a cancel or a reset advanced the operation id; it left
\* no transcription outcome and no error.
C18_AbortedAttemptEnded ==
  /\ \A op \in Ops : procs[op].pc = "none"
  /\ acquireTokenRef = 1 /\ currentOpIdRef >= 2 /\ cooldown = 1
  /\ sttLog = <<>> /\ messages = 1 /\ error = ""

\* C19: when a capture session ends, its recorder having been stopped by
\* a release, a too-short discard, a cancel or a reset, no track of its
\* stream is live any more, whatever the stop of the recorder threw.
C19_TracksStopped ==
  [][\A tok \in Tokens :
       (recs[tok].st \in {"recording", "stopping"} /\ recs'[tok].st = "done") =>
         ~recs'[tok].live]_vars

\* How many items of message id the manager holds, waiting in queue q
\* or taken from it by a loop of ls
HeldOf(id, q, ls) ==
  Cardinality({i \in 1..Len(q) : q[i].id = id})
  + Cardinality({l \in LoopIds : ls[l].pc \in {"play", "retry", "wait"} /\ ls[l].id = id})

\* After the step the item of message id is the last of the queue, or the
\* queue is empty and a loop has just taken it
EnqueuedLast(id) ==
  IF Len(queue') > 0 THEN queue'[Len(queue')].id = id
  ELSE \E l \in LoopIds : loops'[l].pc = "play" /\ loops'[l].id = id

\* C20: for a reply that is not stale, the /tts requests are made one
\* per segment, the correction before the reply (the reply alone when
\* there is no correction), each after the one before it settled; each
\* synthesis that succeeds (its audio goes to ttsCache.set) adds exactly
\* one item, that of its segment, at the end of the queue, and one that
\* fails adds none.
C20_OnePerSegment ==
  [][\A op \in Ops :
       /\ (procs[op].pc = "chat" /\ procs'[op].pc = "tts") =>
            procs'[op].parts \in {<<"correction", "reply">>, <<"reply">>}
       /\ (procs[op].pc = "tts" /\ procs'[op].parts # procs[op].parts) =>
            LET id == PartId(op, Head(procs[op].parts))
            IN /\ IF Len(procs[op].parts) > 1
                  THEN procs'[op] = [procs[op] EXCEPT !.parts = Tail(@)]
                  ELSE procs'[op].pc = "none"
               /\ IF lastRet'.op = "set"
                  THEN /\ lastRet'.id = id
                       /\ HeldOf(id, queue', loops') = HeldOf(id, queue, loops) + 1
                       /\ EnqueuedLast(id)
                  ELSE queue' = queue /\ loops' = loops]_vars

\* A text as the claim describes the ones to discard: nothing but white
\* space, fewer than 2 characters once trimmed, or a known artifact
\* phrase in it
Discardable(text) ==
  \/ \A i \in DOMAIN text : text[i] = " "
  \/ Length(Trim(text)) < 2
  \/ \E pattern \in spuriousPatterns : Includes(text, pattern)

\* C21: when the transcription of the current operation is empty or
\* white space, shorter than 2 characters after trimming, or contains a
\* known artifact phrase, no message is appended, no /chat or /tts request
\* follows, the error shown is the no-speech one, and processing is over.
C21_SpuriousDiscarded ==
  [][\A op \in Ops :
       (/\ procs[op].pc = "stt" /\ procs'[op].pc # "stt"
        /\ currentOpIdRef = op
        /\ heard' # heard \/ SttHeard
        /\ Discardable(heard')) =>
         /\ messages' = messages
         /\ procs'[op].pc = "none"
         /\ error' = "nospeech"
         /\ ~isProcessing' /\ ~busyRef'.isProcessing /\ ~busyRef'.isRecording]_vars

\* A text with an artifact phrase after other words was just discarded
C21_PhraseDiscarded ==
  /\ Len(heard) = MaxPieces /\ heard[1] = "x" /\ heard[3] = "amara.org"
  /\ error = "nospeech" /\ messages = 1
  /\ \A op \in Ops : procs[op].pc = "none"


\* Reading a field back: DataView.getUint32, little-endian
GetUint32(buffer, offset) ==
  buffer[offset + 1] + 256 * buffer[offset + 2] + 65536 * buffer[offset + 3]
    + 16777216 * buffer[offset + 4]

\* C22: the blob made from N 16-bit samples has exactly 44 + 2N bytes, its
\* RIFF chunk-size field reads 36 + 2N and its data chunk-size field 2N
C22_WavSizes ==
  wavBlob # <<>> =>
    /\ Len(wavBlob) = 44 + 2 * Len(pcm16Data)
    /\ GetUint32(wavBlob, 4) = 36 + 2 * Len(pcm16Data)
    /\ GetUint32(wavBlob, 40) = 2 * Len(pcm16Data)

\* a blob of MaxSamples samples was made, the first one negative
C22_BlobMade ==
  /\ Len(pcm16Data) = MaxSamples /\ pcm16Data[1] = -32768
  /\ wavBlob # <<>> /\ wavBlob[45] = 0 /\ wavBlob[46] = 128

\* The record button goes down and handleButtonPress claims recording
ClaimsRecording ==
  ~isButtonPressedRef /\ isButtonPressedRef' /\ micPermissionGranted

\* C23: a press that claims recording while an item is current or audible
\* or items are queued halts playback and leaves the queue empty, no cache
\* entry marked playing
C23_PressDiscards ==
  [][(ClaimsRecording /\ (playingId # NoId \/ (audio /\ audPlaying) \/ Len(queue) > 0))
       => /\ queue' = <<>>
          /\ playingId' = NoId
          /\ ~(audio' /\ audPlaying')
          /\ \A i \in 1..Len(cache') : ~cache'[i].isPlaying]_vars

\* C24: whenever autoTTSPlaying is set it is cleared later, once the
\* requests and the playback that are pending have completed
C24_AutoPlayReleased ==
  busyRef.autoTTSPlaying ~> ~busyRef.autoTTSPlaying

\* The completion callback processAudio installed runs: it clears
\* autoTTSPlaying and itself (no Cancel and no reset in the step)
CallbackFired ==
  /\ onQueueComplete /\ ~onQueueComplete'
  /\ busyRef.autoTTSPlaying /\ ~busyRef'.autoTTSPlaying
  /\ currentOpIdRef' = currentOpIdRef /\ appLifecycle' = appLifecycle

\* C25: when the completion callback runs no segment of the batch is left
\* to synthesise and enqueue, the queue is empty and no item is current or
\* audible
C25_CallbackAfterBatch ==
  [][CallbackFired =>
       /\ \A op \in Ops : procs'[op].pc # "tts"
       /\ queue' = <<>>
       /\ playingId' = NoId
       /\ ~(audio' /\ audPlaying')]_vars

\* A _process loop shifts an item off the queue and starts it
Taken(l) ==
  /\ loops'[l].pc = "play"
  /\ loops[l].pc \notin {"play", "retry", "wait"} \/ loops'[l].url # loops[l].url

\* C26: the item a loop starts is the one at the head of the queue, and it
\* starts only when no earlier item is still playing (each has ended,
\* failed or been aborted)
C26_QueueOrder ==
  [][\A l \in LoopIds :
       Taken(l) =>
         /\ queue # <<>> =>
              loops'[l].id = Head(queue).id /\ loops'[l].url = Head(queue).url
         /\ \A k \in LoopIds \ {l} : loops'[k].pc # "wait"]_vars

\* C27: a cache entry is marked playing only while its id is the current
\* item, so with no current item no entry is marked playing
C27_PlayingIsCurrent ==
  \A i \in 1..Len(cache) : cache[i].isPlaying => playingId = cache[i].id

\* How many items that are not cache-owned hold url u, in queue q and in
\* the loops ls
HoldersOf(u, q, ls) ==
  Cardinality({i \in 1..Len(q) : q[i].url = u /\ ~q[i].fromCache})
    + Cardinality({l \in LoopIds : /\ ls[l].pc \in {"play", "retry", "wait"}
                                   /\ ls[l].url = u /\ ~ls[l].fromCache})

ReleasedTimes(u) == Cardinality({i \in 1..Len(released') : released'[i] = u})

HeldUrls == {queue[i].url : i \in 1..Len(queue)} \cup {loops[l].url : l \in LoopIds}

playCount == PlayCount([plays |-> plays])

\* C29: once 20 plays are counted and the 20th is over, the audio element
\* is replaced
C29_RotatedEvery20 ==
  (playCount = rotateEvery /\ \A l \in LoopIds : loops[l].pc = "off")
    ~> (rotated.at = rotateEvery)

\* C30: the rotation replaces the element only when, at that moment,
\* nothing is playing and the queue is not being processed
C30_RotationWhenIdle ==
  rotated.on => ~rotated.playing /\ ~rotated.processing

\* the element was rotated after the 20th play
C30_Rotated == rotated.on /\ playCount = rotateEvery

\* audio.play() of the item loop l started rejects with NotAllowedError
NotAllowedStep(l) ==
  /\ loops[l].pc = "play" /\ audOwner = l
  /\ Commit(PlayNotAllowed(World, l))

NotPlaying(c) == {c[i] : i \in {j \in 1..Len(c) : ~c[j].isPlaying}}

\* C32: get on a present id returns its handle and leaves the entry the
\* most recently used one (last in the Map, no stamp later than its own);
\* a set that has to evict evicts exactly one entry, one that is not
\* playing and has the earliest stamp among those; so a set that follows a
\* get never evicts the entry the get returned while another entry is not
\* playing.
C32_GetKeepsFromEviction ==
  [][/\ (lastRet'.op = "get" /\ Has(cache, lastRet'.id)) =>
          LET e == cache[IndexOf(cache, lastRet'.id)]
              last == cache'[Len(cache')]
          IN /\ lastRet'.url = e.url
             /\ Len(cache') = Len(cache)
             /\ last.id = e.id /\ last.url = e.url
             /\ \A i \in 1..Len(cache') : cache'[i].lastUsed <= last.lastUsed
             /\ \A v \in NotPlaying(cache) :
                  v.id # e.id => FindLRUVictim(cache') # Len(cache')
     /\ (lastRet'.op = "set" /\ AtCapacity(cache) /\ NotPlaying(cache) # {}) =>
          /\ Cardinality(evicted') = 1
          /\ \A v \in evicted' :
               /\ v \in NotPlaying(cache)
               /\ \A e \in NotPlaying(cache) : v.lastUsed <= e.lastUsed
     /\ (lastRet.op = "get" /\ lastRet.url # 0 /\ lastRet'.op = "set") =>
          \A v \in evicted' :
            v.id = lastRet.id => \A e \in NotPlaying(cache) : e.id = lastRet.id]_vars

\* a set has evicted an entry and kept the one a get had just returned,
\* the first the Map now holds
C32_GotEntryKept ==
  /\ lastRet.op = "set" /\ evicted # {}
  /\ "got" \in DOMAIN lastRet
  /\ lastRet.got # NoId /\ lastRet.got # lastRet.id
  /\ cache[1].id = lastRet.got /\ ~cache[1].isPlaying
  /\ \A v \in evicted : ~v.isPlaying /\ v.id # lastRet.got

\* C33: after clearConversation the cache holds no entry, the handle of
\* every entry it held has been released, no entry is marked playing,
\* both mode-switch counters are 0 and the capture mode is MP4.
C33_ClearResets ==
  [][ClearTap =>
       /\ cache' = <<>>
       /\ \A i \in 1..Len(cache) : cache[i] \in evicted'
       /\ consecutiveFailuresRef' = 0 /\ wavSuccessCountRef' = 0
       /\ captureMode' = "mp4"]_vars

\* C34: a stream that is adopted gets the MediaRecorder of the first type
\* the browser supports among audio/mp4, audio/webm;codecs=opus,
\* audio/webm and audio/ogg; when it supports none of them, or the
\* recording started in WAV mode, it gets the raw-PCM WAV graph and no
\* MediaRecorder.
C34_EncoderChoice ==
  [][\A tok \in Tokens :
       (recs[tok].st = "acquiring" /\ recs'[tok].st = "recording") =>
         IF recs[tok].kind = "wav" \/ FirstSupported(types, isTypeSupported) = ""
         THEN recs'[tok].kind = "wav" /\ recs'[tok].mime = "none"
         ELSE /\ recs'[tok].kind = "mp4"
              /\ recs'[tok].mime = FirstSupported(types, isTypeSupported)]_vars

\* C35: at any time at most one microphone stream is live and at most one
\* recorder exists: a recorder that records, or whose stop was called and
\* whose stop handler has not run yet.
C35_OneStreamOneRecorder ==
  /\ Cardinality({tok \in Tokens : recs[tok].live}) <= 1
  /\ Cardinality({tok \in Tokens :
                    recs[tok].st \in {"recording", "stopping"}}) <= 1

\* A MediaRecorder or a WAV graph is recording
Recording == \E tok \in Tokens : recs[tok].st = "recording"

\* C36: while a capture session is recording no playback item is current
\* and none starts: no id is the current one and the element is silent,
\* also for the audio of a synthesis request that was in flight at the
\* press.
C36_SilentWhileRecording ==
  Recording => playingId = NoId /\ ~audPlaying

\* C37: when the stream of a getUserMedia call resolves while the record
\* button is up, its tracks are stopped and no recording starts on it.
C37_ReleasedWhilePending ==
  [][\A tok \in Tokens :
       (/\ recs[tok].st = "acquiring" /\ recs'[tok].st # "acquiring"
        /\ ~isButtonPressedRef)
         => recs'[tok].st # "recording" /\ ~recs'[tok].live]_vars

\* A press after which startRecording has asked for no stream
RefusedPress == Press /\ acquireTokenRef' = acquireTokenRef

\* C38: a press of the record button that results in no recording (the app
\* is not ready, something is busy or cleaning up, a recorder exists, or
\* the permission is missing or was just answered) leaves the ownership
\* flags, the queue and the current item as they were.
C38_RefusedPressFrame ==
  [][(RefusedPress \/ PermissionAnswered) =>
       busyRef' = busyRef /\ queue' = queue /\ playingId' = playingId]_vars

\* The urls of the items that wait in the queue and of the current item
WaitingOrCurrentUrls ==
  {queue[i].url : i \in 1..Len(queue)} \cup
  {loops[l].url : l \in {k \in CurrentItems : /\ loops[k].id = playingId
                                               /\ audOwner = k}}

\* C39: no item that waits in the queue or is the current one refers to a
\* handle that was released, be it by an eviction or by clear().
C39_NoReleasedHandleHeld == WaitingOrCurrentUrls \cap revoked = {}

\* C40: when the recorder of a session that was recording when
\* resetAudioStack or cancelProcessing stopped it (no release was awaiting
\* its stop) has stopped, no processing attempt starts: no /stt request is
\* made for its audio.
C40_TornDownNotTranscribed ==
  [][\A tok \in Tokens :
       (/\ recs[tok].st = "stopping" /\ recs'[tok].st = "done"
        /\ recs[tok].wait \cap {"release", "short"} = {})
         => \A op \in Ops : procs'[op].pc = "stt" => procs[op].pc = "stt"]_vars

====
